---- MODULE Spec2Model ----
(***************************************************************************)
(* askdoc mobile client: the App component's session/onboarding gate, the  *)
(* initializeApp loader (local store + remote profile table with retry)    *)
(* and the per-collection mutators of the screens.                         *)
(*                                                                         *)
(* React is modelled as: component state (app), the props/closures of the  *)
(* last committed render (view), effects that run after the render with    *)
(* the values of that render, and asynchronous handlers whose every await  *)
(* is a step boundary.  A handler started from a render keeps reading the  *)
(* values that render captured.                                            *)
(***************************************************************************)
EXTENDS Integers, Sequences, FiniteSets, TLC

\* ---------------------------------------------------------------- bounds
MaxStrLen == 2      \* longest remote comma-joined column value
MaxInFlight == 2    \* initializeApp invocations executing at once
MaxNetFaults == 3   \* remote requests that may fail in one run
MaxIoFaults == 1    \* local-store calls that may fail in one run
MaxOps == 2         \* screen handlers suspended at an await at once
MaxItems == 2       \* items the user creates in one run
MaxAuthEvents == 2  \* session changes reported by the auth listener in one run

\* ------------------------------------------------------------- constants
maxAttempts == 3

Users == {"u1", "u2"}
Null == "null"                       \* JS null / undefined for a string field
Collections == {"history", "chatMedications", "favoriteTips",
                "reminders", "appointments", "symptomProgress"}
Chars == {"a", ",", " "}

\* ------------------------------------------------- local store encoding
\* A key `<collection>_<userId>` is the pair <<collection, userId>>; the
\* unqualified key (`history`, `hasSeenWarning`) has Null as its user part.
Key(name, userId) == <<name, userId>>

Absent == [t |-> "absent"]           \* getItem resolves to null
Bad == [t |-> "bad"]                 \* a string JSON.parse throws on
Scalar == [t |-> "scalar"]           \* JSON that is neither object nor array
Empty == [t |-> "empty"]             \* the empty string: falsy, and JSON.parse throws on it
Json(v) == [t |-> "json", v |-> v]   \* JSON.stringify(v)

NoRow == [t |-> "norow"]             \* maybeSingle() -> data: null
Row(cols) == [t |-> "row", cols |-> cols]

Has(o, f) == f \in DOMAIN o
Truthy(s) == s \notin {"", Null}
StrOr(o, f, d) == IF Has(o, f) /\ Truthy(o[f]) THEN o[f] ELSE d
EmptyObj == [f \in {} |-> Null]

RemoveAt(s, i) == SubSeq(s, 1, i - 1) \o SubSeq(s, i + 1, Len(s))
SeqToSet(s) == {s[i] : i \in 1..Len(s)}

\* ------------------------------------------------- string helpers (JS)
RECURSIVE SplitAcc(_, _, _)
SplitAcc(s, cur, acc) ==
  IF s = <<>> THEN Append(acc, cur)
  ELSE IF Head(s) = "," THEN SplitAcc(Tail(s), <<>>, Append(acc, cur))
  ELSE SplitAcc(Tail(s), Append(cur, Head(s)), acc)

\* String.prototype.split(',')
Split(s) == SplitAcc(s, <<>>, <<>>)

RECURSIVE TrimLeft(_)
TrimLeft(s) == IF s # <<>> /\ Head(s) = " " THEN TrimLeft(Tail(s)) ELSE s

RECURSIVE TrimRight(_)
TrimRight(s) ==
  IF s # <<>> /\ s[Len(s)] = " " THEN TrimRight(SubSeq(s, 1, Len(s) - 1)) ELSE s

\* String.prototype.trim()
Trim(s) == TrimRight(TrimLeft(s))

\* col.split(',').map(s => s.trim()).filter(Boolean)
SplitList(s) ==
  LET pieces == Split(s)
      trimmed == [i \in 1..Len(pieces) |-> Trim(pieces[i])]
  IN SelectSeq(trimmed, LAMBDA p : p # <<>>)

\* Times as they are typed into the reminder form.
T0800 == <<"0", "8", ":", "0", "0">>
T0900 == <<"0", "9", ":", "0", "0">>

\* ------------------------------------------------------------- profiles
DEFAULT_PROFILE ==
  [user_id |-> Null, name |-> "", dob |-> Null, conditions |-> <<>>,
   lifestyle |-> [smoker |-> FALSE, alcohol |-> ""]]

\* { ...DEFAULT_PROFILE, user_id: userId }
StampedDefault(userId) == [DEFAULT_PROFILE EXCEPT !.user_id = userId]

\* { ...DEFAULT_PROFILE.lifestyle, ...(parsedProfile.lifestyle || {}) }
MergeLifestyle(parsed) ==
  LET ls == IF Has(parsed, "lifestyle") THEN parsed.lifestyle ELSE EmptyObj
  IN [f \in {"smoker", "alcohol"} |->
        IF Has(ls, f) THEN ls[f] ELSE DEFAULT_PROFILE.lifestyle[f]]

\* The spread written the other way round: the defaults overwrite the record.
MergeLocalDefaultsWin(parsed, userId) == [DEFAULT_PROFILE EXCEPT !.user_id = userId]

\* The profile built from a parsed local record with a matching user_id.
MergeLocal(parsed, userId) ==
  [user_id |-> userId,
   name |-> StrOr(parsed, "name", ""),
   dob |-> StrOr(parsed, "dob", Null),
   conditions |-> IF Has(parsed, "conditions") THEN parsed.conditions ELSE <<>>,
   lifestyle |-> MergeLifestyle(parsed)]

\* The profile built from a remote row.
mappedProfile(sp, userId) ==
  [user_id |-> userId,
   name |-> StrOr(sp, "name", ""),
   dob |-> StrOr(sp, "dob", Null),
   conditions |-> IF Has(sp, "conditions") /\ sp.conditions # <<>>
                  THEN SplitList(sp.conditions) ELSE <<>>,
   lifestyle |-> [smoker |-> IF Has(sp, "lifestyle_smoker")
                             THEN sp.lifestyle_smoker ELSE FALSE,
                  alcohol |-> StrOr(sp, "lifestyle_alcohol", "")]]

\* parsedProfile && typeof parsedProfile === 'object' && parsedProfile.user_id === userId
ValidStored(v, userId) ==
  v.t = "json" /\ Has(v.v, "user_id") /\ v.v.user_id = userId

\* The profile initializeApp returns once the retry loop has ended.
ResolveProfileLocalWins(loadedProfile, sp, stored, userId) ==
  IF stored.t \notin {"absent", "empty"} THEN loadedProfile
  ELSE IF sp.t = "row" THEN mappedProfile(sp.cols, userId)
  ELSE StampedDefault(userId)

ResolveProfile(loadedProfile, sp, stored, userId) ==
  IF sp.t = "row" THEN mappedProfile(sp.cols, userId)
  ELSE IF stored.t \notin {"absent", "empty"} THEN loadedProfile
  ELSE StampedDefault(userId)

\* ----------------------------------------------------------------- state
VARIABLES
  app,        \* the App component's useState values
  view,       \* the last committed render: captured values, screen, effect due
  local,      \* AsyncStorage: key -> stored value
  remote,     \* the remote `profiles` table: user id -> row
  loads,      \* initializeApp invocations that have not returned yet
  ops,        \* screen handlers suspended at an await
  netFaults,  \* remote requests that may still fail
  ioFaults,   \* local-store calls that may still fail
  made,       \* items created so far (source of Date.now() ids)
  prefsPc,    \* checkInitialPreferences: "pending" or "done"
  authEvents, \* session changes the auth listener has reported
  saved,      \* per user: the profile of the last save that wrote it locally and returned
  expect,     \* per collection: the items its successful mutations leave
  done,       \* the last initializeApp invocation that returned
  opDone,     \* the last screen handler that finished
  scheduled   \* medication notifications scheduled and not cancelled

vars == <<app, view, local, remote, loads, ops, netFaults, ioFaults, made,
          prefsPc, authEvents, saved, expect, done, opDone, scheduled>>

StoreNames == Collections \cup {"profile"}
FlagKeys == {Key("hasSeenWarning", Null), Key("hasSeenIntro", Null)}
Keys == (StoreNames \X (Users \cup {Null})) \cup FlagKeys

AppInit ==
  [session |-> Null, authLoading |-> TRUE, profile |-> DEFAULT_PROFILE,
   history |-> <<>>, reminders |-> <<>>, chatMedications |-> <<>>,
   favoriteTips |-> <<>>, appointments |-> <<>>, symptomProgress |-> <<>>,
   hasSeenWarning |-> FALSE, hasSeenIntro |-> FALSE,
   appLoading |-> FALSE, loadingError |-> {}, isInitializing |-> FALSE]

EmptyResults == [c \in Collections |-> <<>>]

DefaultSnapshot(userId, err) ==
  [profile |-> StampedDefault(userId), results |-> EmptyResults, loadError |-> err]

NoDone ==
  [userId |-> Null, stored |-> Absent, sp |-> NoRow, fetched |-> FALSE,
   fetchErr |-> FALSE, attempts |-> 0, overlapped |-> FALSE, session |-> Null,
   skipped |-> FALSE, savedAtStart |-> [t |-> "none"],
   snapshot |-> DefaultSnapshot(Null, {})]

NoSave == [t |-> "none"]
Saved(p) == [t |-> "saved", v |-> p]

NoOpDone ==
  [kind |-> "none", userId |-> Null, failed |-> FALSE, applied |-> FALSE,
   alerted |-> FALSE]

\* The part of the initial state every specification shares: the component
\* has mounted with its useState defaults and its mount effects are due.
\* ProfileScreen's editing state: the conditions list of localProfile and
\* the text of the newCondition input, as sequences of characters.
Draft(profile) == [conditions |-> profile.conditions, newCondition |-> <<>>]

InitCore ==
  /\ app = AppInit
  /\ view = [props |-> AppInit, screen |-> "Loading", effect4 |-> TRUE,
             step |-> 1, isSaving |-> FALSE,
             draft |-> Draft(DEFAULT_PROFILE)]
  /\ loads = <<>>
  /\ ops = <<>>
  /\ made = 0
  /\ scheduled = {}
  /\ prefsPc = "pending"
  /\ authEvents = 0
  /\ saved = [u \in Users |-> NoSave]
  /\ expect = [c \in Collections |-> {}]
  /\ done = NoDone
  /\ opDone = NoOpDone

\* No render or effect is pending: the next thing to run is an event or the
\* continuation of an await.
Quiet == app = view.props /\ ~view.effect4

\* ------------------------------------------------------------ rendering
\* A render decision that tests the tour flag before the disclaimer flag.
ScreenTourFirst(a) ==
  IF a.authLoading \/ (a.session # Null /\ a.appLoading) THEN "Loading"
  ELSE IF a.session = Null THEN "Login"
  ELSE IF ~a.hasSeenIntro THEN "Intro"
  ELSE IF ~a.hasSeenWarning THEN "Warning"
  ELSE "MainApp"

\* The render decision of App.
Screen(a) ==
  IF a.authLoading \/ (a.session # Null /\ a.appLoading) THEN "Loading"
  ELSE IF a.session = Null THEN "Login"
  ELSE IF ~a.hasSeenWarning THEN "Warning"
  ELSE IF ~a.hasSeenIntro THEN "Intro"
  ELSE "MainApp"

\* The dependency array of Effect 4 (the setters are stable; initializeApp
\* changes exactly when isInitializing does).
Effect4Deps(a) == <<a.session, a.profile.user_id, a.isInitializing, a.appLoading>>

Render ==
  /\ app # view.props
  /\ ~view.effect4
  /\ view' = [props |-> app, screen |-> Screen(app),
              effect4 |-> Effect4Deps(app) # Effect4Deps(view.props),
              \* IntroScreen mounts with useState(1)
              step |-> IF Screen(app) = "Intro" /\ view.screen = "Intro"
                       THEN view.step ELSE 1,
              \* ProfileScreen mounts with useState(false)
              isSaving |-> view.isSaving /\ Screen(app) = "MainApp"
                           /\ view.screen = "MainApp",
              \* ProfileScreen mounts with useState(profile || {}); in its
              \* editing mode the draft is not reset from the prop
              draft |-> IF Screen(app) = "MainApp" /\ view.screen = "MainApp"
                        THEN view.draft ELSE Draft(app.profile)]
  /\ UNCHANGED <<scheduled, app, local, remote, loads, ops, netFaults, ioFaults, made,
                 prefsPc, done, opDone, expect, authEvents, saved>>

\* --------------------------------------------------------------- Effect 3
\* supabase.auth.getSession().then(setSession).catch(..).finally(setAuthLoading(false))
GetSessionThen(currentSession) ==
  /\ Quiet
  /\ app.authLoading
  /\ authEvents > 0 => currentSession = app.session   \* one auth client
  /\ app' = [app EXCEPT !.session = currentSession, !.authLoading = FALSE]
  /\ UNCHANGED <<scheduled, view, local, remote, loads, ops, netFaults, ioFaults, made,
                 prefsPc, done, opDone, expect, authEvents, saved>>

\* The onAuthStateChange listener: sign-in, sign-out, sign-in as another user.
OnAuthStateChange(currentSession) ==
  /\ Quiet
  /\ currentSession # app.session
  /\ currentSession = Null \/ app.session = Null   \* sign-in is on the login screen
  /\ authEvents < MaxAuthEvents
  /\ authEvents' = authEvents + 1
  /\ app' = [app EXCEPT !.session = currentSession]
  /\ UNCHANGED <<scheduled, view, local, remote, loads, ops, netFaults, ioFaults, made,
                 prefsPc, saved, done, opDone, expect>>

\* --------------------------------------------------------------- Effect 4
resetUserDataStates(a) ==
  [a EXCEPT !.profile = DEFAULT_PROFILE, !.history = <<>>, !.reminders = <<>>,
            !.chatMedications = <<>>, !.favoriteTips = <<>>,
            !.appointments = <<>>, !.symptomProgress = <<>>,
            !.loadingError = {}]

\* The synchronous head of initializeApp(userId), up to its first await.
NewLoad(userId) ==
  [userId |-> userId, pc |-> "getProfile", overlapped |-> Len(loads) > 0,
   stored |-> Absent, loadedProfile |-> StampedDefault(userId),
   sp |-> NoRow, fetched |-> FALSE, fetchErr |-> FALSE, attempts |-> 0,
   loadError |-> {}, results |-> EmptyResults, removeKeys |-> {},
   savedAtStart |-> saved[userId],
   reload |-> view.props.profile.user_id = userId]   \* u's profile is in memory

\* Effect 4 takes the branch that resets and loads.
Effect4ShouldLoad(p) ==
  /\ p.session # Null
  /\ (p.session # p.profile.user_id \/ ~Truthy(p.profile.name))
  /\ ~p.isInitializing

Effect4 ==
  /\ view.effect4
  /\ LET p == view.props
         cur == p.session
         prev == p.profile.user_id
     IN IF Effect4ShouldLoad(p)
        THEN \* initializeApp is the callback of this render: its guard reads
             \* the same isInitializing, which is false here.
             /\ Len(loads) < MaxInFlight
             /\ app' = [resetUserDataStates(app) EXCEPT
                          !.appLoading = TRUE, !.isInitializing = TRUE]
             /\ loads' = Append(loads, NewLoad(cur))
        ELSE /\ loads' = loads
             /\ IF cur # Null
                THEN IF cur = prev /\ ~p.isInitializing /\ p.appLoading
                     THEN app' = [app EXCEPT !.appLoading = FALSE,
                                             !.loadingError = {}]
                     ELSE app' = app
                ELSE LET a1 == IF prev # Null THEN resetUserDataStates(app)
                               ELSE app
                     IN IF p.appLoading \/ p.isInitializing
                        THEN app' = [a1 EXCEPT !.appLoading = FALSE,
                                               !.isInitializing = FALSE,
                                               !.loadingError = {}]
                        ELSE app' = a1
  /\ view' = [view EXCEPT !.effect4 = FALSE]
  /\ expect' = IF Effect4ShouldLoad(view.props) \/
                  (view.props.session = Null /\ view.props.profile.user_id # Null)
               THEN [c \in Collections |-> {}]   \* resetUserDataStates ran
               ELSE expect
  /\ UNCHANGED <<scheduled, local, remote, ops, netFaults, ioFaults, made, prefsPc,
                 done, opDone, authEvents, saved>>

\* ----------------------------------------------------------- initializeApp
\* The snapshot returned without its loadError.
SnapshotErrorDropped(l, results, err) ==
  [profile |-> l.loadedProfile, results |-> results, loadError |-> {}]

\* The snapshot initializeApp returns from its try block.
Snapshot(l, results, err) ==
  [profile |-> l.loadedProfile, results |-> results, loadError |-> err]

\* initializeApp returns `snap`: its finally clears isInitializing, then the
\* promise chain of Effect 4 commits the snapshot and clears appLoading.
\* The three callbacks run back to back as microtasks, before any render.
Return(i, snap) ==
  /\ app' = [app EXCEPT !.isInitializing = FALSE,
                        !.profile = snap.profile,
                        !.history = snap.results["history"],
                        !.reminders = snap.results["reminders"],
                        !.chatMedications = snap.results["chatMedications"],
                        !.favoriteTips = snap.results["favoriteTips"],
                        !.appointments = snap.results["appointments"],
                        !.symptomProgress = snap.results["symptomProgress"],
                        !.loadingError = snap.loadError,
                        !.appLoading = FALSE]
  /\ loads' = RemoveAt(loads, i)
  /\ expect' = [c \in Collections |-> SeqToSet(snap.results[c])]
  /\ done' = [userId |-> loads[i].userId, stored |-> loads[i].stored,
              sp |-> loads[i].sp, fetched |-> loads[i].fetched,
              fetchErr |-> loads[i].fetchErr, attempts |-> loads[i].attempts,
              overlapped |-> loads[i].overlapped, session |-> app.session,
              skipped |-> FALSE, savedAtStart |-> loads[i].savedAtStart,
              snapshot |-> snap]

Goto(i, l) == loads' = [loads EXCEPT ![i] = l]

\* await AsyncStorage.getItem(profileKey) settles.
LoadGetProfile(i) ==
  /\ Quiet
  /\ i \in 1..Len(loads)
  /\ loads[i].pc = "getProfile"
  /\ LET l == loads[i]
         v == local[Key("profile", l.userId)]
     IN \/ \* the read rejects: the outer catch returns the defaulted snapshot
           /\ ioFaults > 0
           /\ ioFaults' = ioFaults - 1
           /\ Return(i, DefaultSnapshot(l.userId, {"Critical initialization error"}))
        \/ \* if (storedProfileJson) is false, or the record is this user's
           /\ v.t \in {"absent", "empty"} \/ ValidStored(v, l.userId)
           /\ Goto(i, [l EXCEPT !.stored = v, !.pc = "fetch",
                         !.loadedProfile =
                            IF v.t \in {"absent", "empty"} THEN StampedDefault(l.userId)
                            ELSE MergeLocal(v.v, l.userId)])
           /\ UNCHANGED <<app, done, expect, ioFaults>>
        \/ \* unparsable, or parsed but not this user's record
           /\ v.t \notin {"absent", "empty"} /\ ~ValidStored(v, l.userId)
           /\ Goto(i, [l EXCEPT !.stored = v, !.pc = "removeProfile"])
           /\ UNCHANGED <<app, done, expect, ioFaults>>
  /\ UNCHANGED <<scheduled, view, local, remote, ops, netFaults, made, prefsPc, opDone,
                 authEvents, saved>>

\* await AsyncStorage.removeItem(profileKey).catch(..) settles.
LoadRemoveProfile(i) ==
  /\ Quiet
  /\ i \in 1..Len(loads)
  /\ loads[i].pc = "removeProfile"
  /\ \/ /\ local' = [local EXCEPT ![Key("profile", loads[i].userId)] = Absent]
        /\ UNCHANGED ioFaults
     \/ /\ ioFaults > 0
        /\ ioFaults' = ioFaults - 1
        /\ UNCHANGED local
  /\ Goto(i, [loads[i] EXCEPT !.pc = "fetch"])
  /\ UNCHANGED <<scheduled, app, view, remote, ops, netFaults, made, prefsPc, done,
                 opDone, expect, authEvents, saved>>

\* Where initializeApp goes once the retry loop has ended.
AfterFetch(l) ==
  [l EXCEPT !.loadedProfile =
               ResolveProfile(l.loadedProfile, l.sp, l.stored, l.userId),
            !.pc = IF l.sp.t = "row" THEN "saveProfile" ELSE "getData"]

\* The retry loop with its limit tested by > instead of >=.
LoadFetchOffByOne(i) ==
  /\ Quiet
  /\ i \in 1..Len(loads)
  /\ loads[i].pc = "fetch"
  /\ LET l == loads[i]
     IN \/ \* a response: the row, or no row
           /\ Goto(i, AfterFetch([l EXCEPT !.sp = remote[l.userId],
                                          !.fetched = TRUE]))
           /\ UNCHANGED netFaults
        \/ \* error or exception
           /\ netFaults > 0
           /\ netFaults' = netFaults - 1
           /\ IF l.attempts + 1 > maxAttempts
              THEN Goto(i, AfterFetch([l EXCEPT
                      !.attempts = l.attempts + 1, !.fetchErr = TRUE,
                      !.loadError = l.loadError \cup {"Profile fetch failed"}]))
              ELSE Goto(i, [l EXCEPT !.attempts = l.attempts + 1,
                                     !.pc = "retryWait"])
  /\ UNCHANGED <<scheduled, app, view, local, remote, ops, ioFaults, made, prefsPc,
                 done, opDone, expect, authEvents, saved>>

\* One attempt of the retry loop: the select on `profiles` settles.
LoadFetch(i) ==
  /\ Quiet
  /\ i \in 1..Len(loads)
  /\ loads[i].pc = "fetch"
  /\ LET l == loads[i]
     IN \/ \* a response: the row, or no row
           /\ Goto(i, AfterFetch([l EXCEPT !.sp = remote[l.userId],
                                          !.fetched = TRUE]))
           /\ UNCHANGED netFaults
        \/ \* error or exception
           /\ netFaults > 0
           /\ netFaults' = netFaults - 1
           /\ IF l.attempts + 1 >= maxAttempts
              THEN Goto(i, AfterFetch([l EXCEPT
                      !.attempts = l.attempts + 1, !.fetchErr = TRUE,
                      !.loadError = l.loadError \cup {"Profile fetch failed"}]))
              ELSE Goto(i, [l EXCEPT !.attempts = l.attempts + 1,
                                     !.pc = "retryWait"])
  /\ UNCHANGED <<scheduled, app, view, local, remote, ops, ioFaults, made, prefsPc,
                 done, opDone, expect, authEvents, saved>>

\* The 2 second timer between attempts fires.
LoadRetryWait(i) ==
  /\ Quiet
  /\ i \in 1..Len(loads)
  /\ loads[i].pc = "retryWait"
  /\ Goto(i, [loads[i] EXCEPT !.pc = "fetch"])
  /\ UNCHANGED <<scheduled, app, view, local, remote, ops, netFaults, ioFaults, made,
                 prefsPc, done, opDone, expect, authEvents, saved>>

\* await AsyncStorage.setItem(profileKey, JSON.stringify(loadedProfile)).catch(..)
LoadSaveProfile(i) ==
  /\ Quiet
  /\ i \in 1..Len(loads)
  /\ loads[i].pc = "saveProfile"
  /\ \/ /\ local' = [local EXCEPT ![Key("profile", loads[i].userId)] =
                                     Json(loads[i].loadedProfile)]
        /\ UNCHANGED ioFaults
     \/ /\ ioFaults > 0
        /\ ioFaults' = ioFaults - 1
        /\ UNCHANGED local
  /\ Goto(i, [loads[i] EXCEPT !.pc = "getData"])
  /\ UNCHANGED <<scheduled, app, view, remote, ops, netFaults, made, prefsPc, done,
                 opDone, expect, authEvents, saved>>

\* loadPersistedDataLocal: the value and the error of one collection, given
\* what getItem produced (`thrown`: the read itself rejected).
LoadedData(v, thrown) ==
  IF ~thrown /\ v.t = "json" THEN v.v ELSE <<>>

\* Only a rejected read is reported; data of the wrong shape goes unreported.
LoadedErrorThrownOnly(v, thrown) == thrown

LoadedError(v, thrown) == thrown \/ v.t \in {"bad", "scalar", "empty"}

\* The six getItem calls of Promise.all settle.
LoadGetData(i) ==
  /\ Quiet
  /\ i \in 1..Len(loads)
  /\ loads[i].pc = "getData"
  /\ \E thrown \in SUBSET Collections :
       LET l == loads[i]
           val(c) == local[Key(c, l.userId)]
           results == [c \in Collections |-> LoadedData(val(c), c \in thrown)]
           bad == {c \in Collections : LoadedError(val(c), c \in thrown)}
           err == IF bad = {} THEN l.loadError
                  ELSE l.loadError \cup {"Data loading issues"}
       IN /\ Cardinality(thrown) <= ioFaults
          /\ ioFaults' = ioFaults - Cardinality(thrown)
          /\ IF bad = {}
             THEN Return(i, Snapshot(l, results, err))
             ELSE /\ Goto(i, [l EXCEPT !.pc = "removeData", !.results = results,
                                       !.loadError = err, !.removeKeys = bad])
                  /\ UNCHANGED <<app, done, expect>>
  /\ UNCHANGED <<scheduled, view, local, remote, ops, netFaults, made, prefsPc, opDone,
                 authEvents, saved>>

\* The removeItem(..).catch(..) calls for the discarded collections settle.
LoadRemoveData(i) ==
  /\ Quiet
  /\ i \in 1..Len(loads)
  /\ loads[i].pc = "removeData"
  /\ LET l == loads[i]
     IN /\ \/ /\ local' = [k \in Keys |->
                             IF k[2] = l.userId /\ k[1] \in l.removeKeys
                             THEN Absent ELSE local[k]]
              /\ UNCHANGED ioFaults
           \/ /\ ioFaults > 0
              /\ ioFaults' = ioFaults - 1
              /\ UNCHANGED local
        /\ Return(i, Snapshot(l, l.results, l.loadError))
  /\ UNCHANGED <<scheduled, view, remote, ops, netFaults, made, prefsPc, opDone,
                 authEvents, saved>>

LoadStep(i) ==
  \/ LoadGetProfile(i)
  \/ LoadRemoveProfile(i)
  \/ LoadFetch(i)
  \/ LoadRetryWait(i)
  \/ LoadSaveProfile(i)
  \/ LoadGetData(i)
  \/ LoadRemoveData(i)

\* ------------------------------------------------------- screen handlers
\* A handler suspended at an await (or at its confirmation dialog).  userId,
\* key and value are what the handler computed from the render it was
\* started from.
Op(kind, pc, userId, key, value, item) ==
  [kind |-> kind, pc |-> pc, userId |-> userId, key |-> key, value |-> value,
   item |-> item]

NoDialog == \A i \in 1..Len(ops) : ops[i].pc # "confirm"

\* The user can start a handler of a screen inside MainApp.
CanInvoke ==
  /\ Quiet
  /\ view.screen = "MainApp"
  /\ Len(ops) < MaxOps
  /\ NoDialog

At(i, kind, pc) == i \in 1..Len(ops) /\ ops[i].kind = kind /\ ops[i].pc = pc

Finished(i, failed, applied, alerted) ==
  /\ ops' = RemoveAt(ops, i)
  /\ opDone' = [kind |-> ops[i].kind, userId |-> ops[i].userId,
                failed |-> failed, applied |-> applied, alerted |-> alerted]

\* userId ? `history_${userId}` : 'history'
HistoryKey(userId) == Key("history", userId)

\* ProfileScreen.handleSaveProfile, up to the local setItem.
HandleSaveProfile(name) ==
  /\ CanInvoke
  /\ view.props.profile.user_id # Null
  /\ ~view.isSaving /\ Truthy(name)        \* disabled={isSaving || !name.trim()}
  /\ view' = [view EXCEPT !.isSaving = TRUE]
  /\ LET prof == view.props.profile
         dob == IF prof.dob = Null THEN "" ELSE prof.dob
         updatedProfile == [prof EXCEPT !.name = name, !.dob = dob]
     IN ops' = Append(ops, Op("saveProfile", "local", prof.user_id,
                              Key("profile", prof.user_id), updatedProfile, 0))
  /\ UNCHANGED <<scheduled, app, local, remote, loads, netFaults, ioFaults, made,
                 prefsPc, authEvents, saved, expect, done, opDone>>

\* A save that calls setProfile whether or not the local write succeeded.
SaveProfileLocalOptimistic(i) ==
  /\ Quiet
  /\ At(i, "saveProfile", "local")
  /\ app' = [app EXCEPT !.profile = ops[i].value]
  /\ \/ /\ local' = [local EXCEPT ![ops[i].key] = Json(ops[i].value)]
        /\ ops' = [ops EXCEPT ![i].pc = "remote"]
        /\ UNCHANGED <<ioFaults, opDone, view>>
     \/ /\ ioFaults > 0
        /\ ioFaults' = ioFaults - 1
        /\ Finished(i, TRUE, FALSE, TRUE)
        /\ view' = [view EXCEPT !.isSaving = FALSE]
        /\ UNCHANGED local
  /\ UNCHANGED <<scheduled, remote, loads, netFaults, made, prefsPc, authEvents,
                 saved, expect, done>>

\* The local setItem settles: setProfile and go on to the upsert, or alert
\* and return.
SaveProfileLocal(i) ==
  /\ Quiet
  /\ At(i, "saveProfile", "local")
  /\ \/ /\ local' = [local EXCEPT ![ops[i].key] = Json(ops[i].value)]
        /\ app' = [app EXCEPT !.profile = ops[i].value]
        /\ ops' = [ops EXCEPT ![i].pc = "remote"]
        /\ UNCHANGED <<ioFaults, opDone, view>>
     \/ /\ ioFaults > 0
        /\ ioFaults' = ioFaults - 1
        /\ Finished(i, TRUE, FALSE, TRUE)
        /\ view' = [view EXCEPT !.isSaving = FALSE]
        /\ UNCHANGED <<local, app>>
  /\ UNCHANGED <<scheduled, remote, loads, netFaults, made, prefsPc, authEvents,
                 saved, expect, done>>

\* upsert([{ id, name, dob, gender }], { onConflict: 'id' }): the columns
\* sent replace those of the row, the others stay.
Upsert(row, cols) ==
  IF row.t = "row" THEN Row(cols @@ row.cols) ELSE Row(cols)

\* The upsert settles: done, or alert.
SaveProfileRemote(i) ==
  /\ Quiet
  /\ At(i, "saveProfile", "remote")
  /\ \/ /\ remote' = [remote EXCEPT ![ops[i].userId] =
                        Upsert(@, [name |-> ops[i].value.name,
                                   dob |-> ops[i].value.dob])]
        /\ Finished(i, FALSE, TRUE, FALSE)
        /\ UNCHANGED netFaults
     \/ /\ netFaults > 0
        /\ netFaults' = netFaults - 1
        /\ Finished(i, TRUE, TRUE, TRUE)
        /\ UNCHANGED remote
  /\ saved' = [saved EXCEPT ![ops[i].userId] = Saved(ops[i].value)]
  /\ view' = [view EXCEPT !.isSaving = FALSE]     \* finally
  /\ UNCHANGED <<scheduled, app, local, loads, ioFaults, made, prefsPc, authEvents,
                 expect, done>>

\* ChatScreen.handleSymptomAnalysis with a non-empty input, up to the await
\* of the analysis.
HandleSymptomAnalysis ==
  /\ CanInvoke
  /\ \A i \in 1..Len(ops) : ops[i].kind # "symptom"   \* disabled={isLoading}
  /\ made < MaxItems
  /\ ops' = Append(ops, Op("symptom", "analysis", view.props.profile.user_id,
                           HistoryKey(view.props.profile.user_id),
                           view.props.history, 0))
  /\ UNCHANGED <<scheduled, app, view, local, remote, loads, netFaults, ioFaults, made,
                 prefsPc, authEvents, saved, expect, done, opDone>>

\* The analysis returns: the item is built (id from Date.now()) and put in
\* front of the history this handler captured; setItem is issued.
SymptomAnalysisDone(i) ==
  /\ Quiet
  /\ At(i, "symptom", "analysis")
  /\ made' = made + 1
  /\ ops' = [ops EXCEPT ![i].pc = "write", ![i].item = made + 1,
                        ![i].value = <<made + 1>> \o ops[i].value]
  /\ UNCHANGED <<scheduled, app, view, local, remote, loads, netFaults, ioFaults,
                 prefsPc, authEvents, saved, expect, done, opDone>>

\* await setItem(key, JSON.stringify(value)); setX(value) -- or the catch
\* with its alert.  `coll` is the state the handler sets.
WriteThenSet(i, coll) ==
  \/ /\ local' = [local EXCEPT ![ops[i].key] = Json(ops[i].value)]
     /\ app' = [app EXCEPT ![coll] = ops[i].value]
     /\ Finished(i, FALSE, TRUE, FALSE)
     /\ UNCHANGED ioFaults
  \/ /\ ioFaults > 0
     /\ ioFaults' = ioFaults - 1
     /\ Finished(i, TRUE, FALSE, TRUE)
     /\ UNCHANGED <<local, app>>

\* The items a successful mutation of the history leaves, applied to what
\* the earlier successful mutations left.
Expecting(coll, s) == expect' = [expect EXCEPT ![coll] = s]

SymptomWrite(i) ==
  /\ Quiet
  /\ At(i, "symptom", "write")
  /\ WriteThenSet(i, "history")
  /\ IF ioFaults' = ioFaults
     THEN Expecting("history", expect["history"] \cup {ops[i].item})
     ELSE UNCHANGED expect
  /\ UNCHANGED <<scheduled, view, remote, loads, netFaults, made, prefsPc, authEvents,
                 saved, done>>

\* What a delete handler leaves behind when it finds nothing to delete
\* (console.error and return).
NotFound(userId) ==
  [kind |-> "notFound", userId |-> userId, failed |-> FALSE,
   applied |-> FALSE, alerted |-> FALSE]

\* deleteHistoryItem opening its dialog without looking the item up.
DeleteHistoryItemUnchecked(itemIdToDelete) ==
  /\ CanInvoke
  /\ view.props.profile.user_id # Null
  /\ ops' = Append(ops, Op("deleteHistory", "confirm",
                           view.props.profile.user_id,
                           HistoryKey(view.props.profile.user_id),
                           view.props.history, itemIdToDelete))
  /\ UNCHANGED <<scheduled, app, view, local, remote, loads, netFaults, ioFaults, made,
                 prefsPc, authEvents, saved, expect, done, opDone>>

\* HistoryScreen.deleteHistoryItem: when the item is in the history of this
\* render the confirmation dialog opens; otherwise the handler returns.
DeleteHistoryItem(itemIdToDelete) ==
  /\ CanInvoke
  /\ view.props.profile.user_id # Null
  /\ IF itemIdToDelete \in SeqToSet(view.props.history)
     THEN /\ ops' = Append(ops, Op("deleteHistory", "confirm",
                                   view.props.profile.user_id,
                                   HistoryKey(view.props.profile.user_id),
                                   view.props.history, itemIdToDelete))
          /\ UNCHANGED opDone
     ELSE /\ opDone' = NotFound(view.props.profile.user_id)
          /\ UNCHANGED ops
  /\ UNCHANGED <<scheduled, app, view, local, remote, loads, netFaults, ioFaults, made,
                 prefsPc, authEvents, saved, expect, done>>

\* "Delete" is pressed: the captured history without the item is written --
\* or "Cancel" is pressed.
DeleteHistoryConfirm(i) ==
  /\ Quiet
  /\ At(i, "deleteHistory", "confirm")
  /\ \/ ops' = [ops EXCEPT ![i].pc = "write",
                           ![i].value = SelectSeq(ops[i].value,
                                           LAMBDA x : x # ops[i].item)]
     \/ ops' = RemoveAt(ops, i)
  /\ UNCHANGED <<scheduled, app, view, local, remote, loads, netFaults, ioFaults, made,
                 prefsPc, authEvents, saved, expect, done, opDone>>

DeleteHistoryWrite(i) ==
  /\ Quiet
  /\ At(i, "deleteHistory", "write")
  /\ WriteThenSet(i, "history")
  /\ IF ioFaults' = ioFaults
     THEN Expecting("history", expect["history"] \ {ops[i].item})
     ELSE UNCHANGED expect
  /\ UNCHANGED <<scheduled, view, remote, loads, netFaults, made, prefsPc, authEvents,
                 saved, done>>

\* App.toggleFavoriteTip: the state updater computes the new list, issues
\* the setItem without awaiting it and returns the new list.
ToggleFavoriteTip(tipId) ==
  /\ CanInvoke
  /\ view.props.session # Null
  /\ LET userId == view.props.session
         prevFavorites == app.favoriteTips
         updatedFavorites ==
           IF tipId \in SeqToSet(prevFavorites)
           THEN SelectSeq(prevFavorites, LAMBDA x : x # tipId)
           ELSE Append(prevFavorites, tipId)
     IN /\ app' = [app EXCEPT !.favoriteTips = updatedFavorites]
        /\ ops' = Append(ops, Op("favorite", "write", userId,
                                 Key("favoriteTips", userId),
                                 updatedFavorites, tipId))
  /\ UNCHANGED <<scheduled, view, local, remote, loads, netFaults, ioFaults, made,
                 prefsPc, authEvents, saved, expect, done, opDone>>

\* The setItem of toggleFavoriteTip settles; its catch only logs.
FavoriteWrite(i) ==
  /\ Quiet
  /\ At(i, "favorite", "write")
  /\ \/ /\ local' = [local EXCEPT ![ops[i].key] = Json(ops[i].value)]
        /\ Finished(i, FALSE, TRUE, FALSE)
        /\ UNCHANGED ioFaults
     \/ /\ ioFaults > 0
        /\ ioFaults' = ioFaults - 1
        /\ Finished(i, TRUE, TRUE, FALSE)
        /\ UNCHANGED local
  /\ UNCHANGED <<scheduled, app, view, remote, loads, netFaults, made, prefsPc,
                 authEvents, saved, expect, done>>

\* ------------------------------------------------ the loader on its own
\* Inputs of one load: what the local store holds under profile_u1 and what
\* the remote table holds for u1.
StringsUpTo(n) == UNION {[1..k -> Chars] : k \in 0..n}

LocalObjects ==
  {a @@ b @@ c :
     a \in {EmptyObj} \cup {[user_id |-> u] : u \in Users},
     b \in {EmptyObj, [name |-> ""], [name |-> "Alex"]},
     c \in {EmptyObj, [dob |-> "1990-01-01", conditions |-> << <<"a">> >>,
                       lifestyle |-> [alcohol |-> "often"]]}}

LocalCandidates == {Absent, Bad, Scalar, Empty} \cup {Json(o) : o \in LocalObjects}

RemoteCols ==
  {a @@ c :
     a \in {EmptyObj, [name |-> "Bob"]},
     c \in {EmptyObj, [lifestyle_smoker |-> TRUE, lifestyle_alcohol |-> "never"]}}
  \cup {[name |-> "Bob", conditions |-> s] : s \in StringsUpTo(MaxStrLen)}

RemoteRows == {NoRow} \cup {Row(r) : r \in RemoteCols}

InitLoad ==
  /\ InitCore
  /\ \E L \in LocalCandidates, H \in {Absent, Bad, Json(<<1>>)} :
       local = [k \in Keys |->
                  IF k = Key("profile", "u1") THEN L
                  ELSE IF k = Key("history", "u1") THEN H
                  ELSE Absent]
  /\ \E R \in RemoteRows : remote = [u \in Users |-> IF u = "u1" THEN R ELSE NoRow]
  /\ netFaults = MaxNetFaults
  /\ ioFaults = MaxIoFaults

NextLoad ==
  \/ GetSessionThen("u1")
  \/ Render
  \/ Effect4
  \/ \E i \in 1..MaxInFlight : LoadStep(i)

SpecLoad == InitLoad /\ [][NextLoad]_vars

\* ------------------------------------------------------ onboarding flags
Raw(v) == [t |-> "raw", v |-> v]

\* Effect 2: both getItem calls of checkInitialPreferences settle.
CheckInitialPreferences ==
  /\ Quiet
  /\ prefsPc = "pending"
  /\ prefsPc' = "done"
  /\ \/ /\ app' = [app EXCEPT
                     !.hasSeenWarning = (local[Key("hasSeenWarning", Null)] = Raw("true")),
                     !.hasSeenIntro = (local[Key("hasSeenIntro", Null)] = Raw("true"))]
        /\ UNCHANGED ioFaults
     \/ \* a read rejects: logged, the flags keep their values
        /\ ioFaults > 0
        /\ ioFaults' = ioFaults - 1
        /\ UNCHANGED app
  /\ UNCHANGED <<scheduled, view, local, remote, loads, ops, netFaults, made, done,
                 opDone, expect, authEvents, saved>>

\* WarningScreen onContinue / IntroScreen onComplete, up to the setItem.
Acknowledge(flag, screen) ==
  /\ Quiet
  /\ view.screen = screen
  /\ Len(ops) < MaxOps
  /\ \A i \in 1..Len(ops) : ops[i].pc # "ack"
  /\ ops' = Append(ops, Op(flag, "ack", Null, Key(flag, Null), DEFAULT_PROFILE, 0))
  /\ UNCHANGED <<scheduled, app, view, local, remote, loads, netFaults, ioFaults, made,
                 prefsPc, done, opDone, expect, authEvents, saved>>

\* AcknowledgeWrite setting the flag in memory only when the write succeeded.
AcknowledgeWriteStrict(i) ==
  /\ Quiet
  /\ i \in 1..Len(ops) /\ ops[i].pc = "ack"
  /\ \/ /\ local' = [local EXCEPT ![ops[i].key] = Raw("true")]
        /\ app' = [app EXCEPT ![ops[i].kind] = TRUE]
        /\ Finished(i, FALSE, TRUE, FALSE)
        /\ UNCHANGED ioFaults
     \/ /\ ioFaults > 0
        /\ ioFaults' = ioFaults - 1
        /\ Finished(i, TRUE, FALSE, TRUE)
        /\ UNCHANGED <<local, app>>
  /\ UNCHANGED <<scheduled, view, remote, loads, netFaults, made, prefsPc, done,
                 expect, authEvents, saved>>

\* The setItem settles: the flag is set in memory whether or not the write
\* succeeded; a failed write is alerted.
AcknowledgeWrite(i) ==
  /\ Quiet
  /\ i \in 1..Len(ops) /\ ops[i].pc = "ack"
  /\ \/ /\ local' = [local EXCEPT ![ops[i].key] = Raw("true")]
        /\ Finished(i, FALSE, TRUE, FALSE)
        /\ UNCHANGED ioFaults
     \/ /\ ioFaults > 0
        /\ ioFaults' = ioFaults - 1
        /\ Finished(i, TRUE, TRUE, TRUE)
        /\ UNCHANGED local
  /\ app' = [app EXCEPT ![ops[i].kind] = TRUE]
  /\ UNCHANGED <<scheduled, view, remote, loads, netFaults, made, prefsPc, done,
                 expect, authEvents, saved>>

WarningContinue == Acknowledge("hasSeenWarning", "Warning")

IntroComplete == Acknowledge("hasSeenIntro", "Intro")

\* IntroScreen: the tour has steps.length pages.
stepsLength == 3

\* Next (or Get Started on the last page).
handleNext ==
  IF view.step < stepsLength
  THEN /\ Quiet
       /\ view.screen = "Intro"
       /\ view' = [view EXCEPT !.step = @ + 1]
       /\ UNCHANGED <<scheduled, app, local, remote, loads, ops, netFaults, ioFaults, made,
                      prefsPc, done, opDone, expect, authEvents, saved>>
  ELSE IntroComplete

\* Skip, offered on every page but the last.
handleSkip ==
  /\ view.step < stepsLength
  /\ IntroComplete

\* --------------------------------------------------------------- the gate
\* A device on which u1 has a remote row and u2 has none; the onboarding
\* flags are either both stored from an earlier run or both missing.
RowBob == Row([name |-> "Bob"])

InitGate ==
  /\ InitCore
  /\ \E seen \in BOOLEAN :
       local = [k \in Keys |-> IF k \in FlagKeys /\ seen THEN Raw("true")
                               ELSE IF k[2] = "u2" /\ k[1] \in {"profile", "history"}
                                    THEN Bad
                               ELSE Absent]
  /\ remote = [u \in Users |-> IF u = "u1" THEN RowBob ELSE NoRow]
  /\ netFaults = 1
  /\ ioFaults = 0

NextGate ==
  \/ \E s \in Users \cup {Null} : GetSessionThen(s)
  \/ \E s \in Users \cup {Null} : OnAuthStateChange(s)
  \/ CheckInitialPreferences
  \/ WarningContinue
  \/ handleNext
  \/ handleSkip
  \/ \E i \in 1..MaxOps : AcknowledgeWrite(i)
  \/ Render
  \/ Effect4
  \/ \E i \in 1..MaxInFlight : LoadStep(i)
  \/ HandleSaveProfile("Alex")
  \/ \E i \in 1..MaxOps : SaveProfileLocal(i) \/ SaveProfileRemote(i)

SpecGate == InitGate /\ [][NextGate]_vars

\* C5: remote wins.  Whenever a load ended after a remote response that
\* carried a row R, the profile it returned is the mapping of R onto the
\* defaults stamped with the requested user id, whatever the local store
\* held under the profile key (absent, valid, partial, corrupt).
C5_RemoteWins ==
  (done.fetched /\ done.sp.t = "row") =>
     LET P == done.snapshot.profile
         R == done.sp.cols
     IN /\ P = mappedProfile(R, done.userId)
        /\ P.user_id = done.userId
        /\ P.name = (IF Has(R, "name") THEN R.name ELSE "")
        /\ P.dob = Null
        /\ (~Has(R, "conditions") => P.conditions = <<>>)
        /\ P.lifestyle.alcohol =
             (IF Has(R, "lifestyle_alcohol") THEN R.lifestyle_alcohol ELSE "")

\* A load that got the row on a retry while the local store held a valid
\* record with another name.
C5_Witness ==
  /\ done.fetched /\ done.sp.t = "row" /\ done.attempts > 0
  /\ ValidStored(done.stored, done.userId)
  /\ Has(done.stored.v, "name") /\ done.stored.v.name = "Alex"
  /\ Has(done.sp.cols, "name")
  /\ done.snapshot.profile.name = "Bob"

\* C6: offline fallback.  Whenever a load ended after all remote attempts
\* failed, its error is non-empty, and its profile is the valid local record
\* laid over the defaults when there is one, else the defaults stamped with
\* the user id.
C6_OfflineFallback ==
  done.fetchErr =>
     LET P == done.snapshot.profile
         L == done.stored
         u == done.userId
     IN /\ done.snapshot.loadError # {}
        /\ done.attempts = maxAttempts
        /\ IF ValidStored(L, u)
           THEN /\ P.user_id = u
                /\ P.name = (IF Has(L.v, "name") THEN L.v.name ELSE "")
                /\ P.dob = (IF Has(L.v, "dob") THEN L.v.dob ELSE Null)
                /\ P.conditions =
                     (IF Has(L.v, "conditions") THEN L.v.conditions ELSE <<>>)
                /\ P.lifestyle.smoker =
                     (IF Has(L.v, "lifestyle") /\ Has(L.v.lifestyle, "smoker")
                      THEN L.v.lifestyle.smoker ELSE FALSE)
                /\ P.lifestyle.alcohol =
                     (IF Has(L.v, "lifestyle") /\ Has(L.v.lifestyle, "alcohol")
                      THEN L.v.lifestyle.alcohol ELSE "")
                /\ (L.v = [user_id |-> "u1", name |-> "Alex"] =>
                      P = [StampedDefault("u1") EXCEPT !.name = "Alex"])
           ELSE P = StampedDefault(u)

\* The scenario of the specification: profile_u1 = {user_id: u1, name: Alex},
\* three failed fetches.
C6_Witness ==
  /\ done.fetchErr
  /\ done.stored = Json([user_id |-> "u1", name |-> "Alex"])
  /\ done.snapshot.profile.name = "Alex"
  /\ done.snapshot.loadError # {}

\* C1: at most one load at a time.  In every reachable state at most one
\* initializeApp invocation is executing its body, under any sequence of
\* session changes and any timing of the storage and remote responses.
C1_AtMostOneConcurrentLoad == Len(loads) <= 1

\* C2: a load issued while another load was unresolved returns the skipped
\* sentinel and commits nothing; only the original call commits a snapshot.
C2_SecondLoadSkipped == done.overlapped => done.skipped

\* C3: whenever the render decision reaches MainApp, the in-memory profile
\* belongs to the session's user and was committed by a completed load for
\* that user.
C3_MainAppOnlyAfterLoad ==
  view.screen = "MainApp" =>
     /\ view.props.profile.user_id = view.props.session
     /\ done.userId = view.props.session

\* C4: a snapshot for user u is committed only if the active session's user
\* id is u at commit time.
C4_StaleSnapshotNotCommitted ==
  (done.userId # Null /\ ~done.skipped) => done.session = done.userId

\* C7: local-first durability.  A load for user u that started after a
\* profile save had written the local store and returned, and ended before
\* any newer save, returns the saved name -- also when the save's remote
\* upsert failed and the remote table answers at load time.
C7_LocalFirstDurability ==
  (done.savedAtStart.t = "saved" /\ saved[done.userId] = done.savedAtStart) =>
     done.snapshot.profile.name = done.savedAtStart.v.name

\* --------------------------------------------------- the screens of MainApp
\* u1 is signed in on a device used before: both onboarding flags are
\* stored, the load found the row of u1, the cached profile and one history
\* item, and MainApp is on screen.
ReadyProfile == [StampedDefault("u1") EXCEPT !.name = "Bob"]

ReadyApp ==
  [AppInit EXCEPT !.session = "u1", !.authLoading = FALSE,
                  !.profile = ReadyProfile, !.history = <<1>>,
                  !.hasSeenWarning = TRUE, !.hasSeenIntro = TRUE]

ReadyLocal ==
  [k \in Keys |->
     IF k \in FlagKeys THEN Raw("true")
     ELSE IF k = Key("profile", "u1") THEN Json(ReadyProfile)
     ELSE IF k = Key("history", "u1") THEN Json(<<1>>)
     ELSE Absent]

ReadyDone ==
  [NoDone EXCEPT !.userId = "u1", !.stored = Json(ReadyProfile),
                 !.sp = RowBob, !.fetched = TRUE, !.session = "u1",
                 !.snapshot = [profile |-> ReadyProfile,
                               results |-> [EmptyResults EXCEPT !["history"] = <<1>>],
                               loadError |-> {}]]

InitMut ==
  /\ app = ReadyApp
  /\ view = [props |-> ReadyApp, screen |-> "MainApp", effect4 |-> FALSE,
             step |-> 1, isSaving |-> FALSE,
             draft |-> Draft(DEFAULT_PROFILE)]
  /\ local = ReadyLocal
  /\ remote = [u \in Users |-> IF u = "u1" THEN RowBob ELSE NoRow]
  /\ loads = <<>>
  /\ ops = <<>>
  /\ netFaults = 0
  /\ ioFaults = MaxIoFaults
  /\ made = 1
  /\ scheduled = {}
  /\ prefsPc = "done"
  /\ authEvents = 0
  /\ saved = [u \in Users |-> NoSave]
  /\ expect = [c \in Collections |-> IF c = "history" THEN {1} ELSE {}]
  /\ done = ReadyDone
  /\ opDone = NoOpDone

NextMut ==
  \/ HandleSymptomAnalysis
  \/ \E i \in 1..MaxOps : SymptomAnalysisDone(i) \/ SymptomWrite(i)
  \/ \E id \in 1..(MaxItems + 1) : DeleteHistoryItem(id)
  \/ \E i \in 1..MaxOps : DeleteHistoryConfirm(i) \/ DeleteHistoryWrite(i)
  \/ ToggleFavoriteTip("t1")
  \/ \E i \in 1..MaxOps : FavoriteWrite(i)
  \/ OnAuthStateChange(Null)
  \/ Render
  \/ Effect4

SpecMut == InitMut /\ [][NextMut]_vars

StoredItems(v) == IF v.t = "json" THEN SeqToSet(v.v) ELSE {}

\* C8: memory is never ahead of the store.  For each per-user collection,
\* every item in memory is in the value stored under the session user's key
\* of that collection.
C8_MemoryNeverAheadOfStore ==
  app.session # Null =>
     \A c \in Collections :
        SeqToSet(app[c]) \subseteq StoredItems(local[Key(c, app.session)])

\* C9: a mutator whose local-store write failed has not changed the
\* in-memory collection and has reported the failure to the user.
C9_FailedWriteLeavesMemory ==
  (opDone.failed /\ opDone.kind \in {"symptom", "deleteHistory", "favorite"}) =>
     (~opDone.applied /\ opDone.alerted)

\* C10: two mutations of one collection, the second issued before the first
\* finished, are both applied: once no handler is pending, the history in
\* memory and in the store holds exactly the items the successful mutations
\* leave.
C10_BothMutationsApplied ==
  (ops = <<>> /\ loads = <<>> /\ app.session # Null /\
   app.profile.user_id = app.session) =>
     /\ SeqToSet(app.history) = expect["history"]
     /\ StoredItems(local[HistoryKey(app.session)]) = expect["history"]

\* C11: one load per session change.  With the session changed to u and no
\* further session change, initializeApp is invoked once for u: no invocation
\* starts while the profile in memory is already the one a load committed
\* for u, whatever that profile holds (an empty name included).
C11_LoadOncePerSessionChange == \A i \in 1..Len(loads) : ~loads[i].reload

\* C12: Ready is stable.  Once MainApp is on screen with the profile a load
\* committed for the session's user, every later render with the same session
\* shows MainApp again: the gate does not go back to the loading screen
\* without a logout/login cycle.
C12_ReadyIsStable ==
  [][(/\ view.screen = "MainApp"
      /\ view.props.profile.user_id = view.props.session
      /\ view'.props.session = view.props.session)
     => view'.screen = "MainApp"]_vars

\* C13: reset on logout.  While the login prompt is shown for a session
\* reported as absent, and Effect 4 has handled that report, the profile and
\* the six collections in memory are the defaults -- also when a load or a
\* mutator started before the logout finishes afterwards.
C13_LoggedOutStaysReset ==
  (/\ view.screen = "Login"
   /\ view.props.session = Null
   /\ app.session = Null
   /\ ~view.effect4)
  => app = resetUserDataStates(app)

\* C14: onboarding order.  The tour is on screen only with hasSeenWarning
\* set, MainApp only with both flags set, and leaving the tour -- by Skip on
\* any page or by going through its pages -- ends in the same state:
\* hasSeenIntro set in memory and stored.
C14_OnboardingOrder ==
  /\ view.screen = "Intro" => view.props.hasSeenWarning
  /\ view.screen = "MainApp" =>
        view.props.hasSeenWarning /\ view.props.hasSeenIntro
  /\ (opDone.kind = "hasSeenIntro" /\ ~opDone.failed) =>
        /\ app.hasSeenWarning /\ app.hasSeenIntro
        /\ local[Key("hasSeenIntro", Null)] = Raw("true")

\* The tour was skipped on its second page: the flag is stored and set, and
\* the next render will show MainApp.
C14_Witness ==
  /\ opDone.kind = "hasSeenIntro"
  /\ view.screen = "Intro" /\ view.step = 2
  /\ app.hasSeenIntro /\ Screen(app) = "MainApp"

\* ------------------------------------------------------ the profile screen
\* u1 in MainApp after a load; the local store and the remote table may fail.
InitSave ==
  /\ app = ReadyApp
  /\ view = [props |-> ReadyApp, screen |-> "MainApp", effect4 |-> FALSE,
             step |-> 1, isSaving |-> FALSE,
             draft |-> Draft(DEFAULT_PROFILE)]
  /\ local = ReadyLocal
  /\ remote = [u \in Users |-> IF u = "u1" THEN RowBob ELSE NoRow]
  /\ loads = <<>>
  /\ ops = <<>>
  /\ netFaults = MaxNetFaults
  /\ ioFaults = MaxIoFaults
  /\ made = 1
  /\ scheduled = {}
  /\ prefsPc = "done"
  /\ authEvents = 0
  /\ saved = [u \in Users |-> NoSave]
  /\ expect = [c \in Collections |-> IF c = "history" THEN {1} ELSE {}]
  /\ done = ReadyDone
  /\ opDone = NoOpDone

NextSave ==
  \/ \E name \in {"Alex", "Ann"} : HandleSaveProfile(name)
  \/ \E i \in 1..MaxOps : SaveProfileLocal(i) \/ SaveProfileRemote(i)
  \/ OnAuthStateChange(Null)
  \/ Render
  \/ Effect4

SpecSave == InitSave /\ [][NextSave]_vars

\* C15: save ordering.  The step in which a save's local write succeeds puts
\* the saved profile in the store and in memory and leaves the remote table
\* alone; a save whose local write fails ends there, alerted, with store,
\* memory and remote table unchanged; the upsert settles only for a save
\* whose local write succeeded, and its failure is alerted and changes
\* neither the store nor the memory nor the remote table.
C15_SaveOrdering ==
  [][/\ \A i \in 1..Len(ops) :
          (At(i, "saveProfile", "local") /\ Len(ops') = Len(ops) /\
           ops'[i].pc = "remote") =>
             /\ local'[ops[i].key] = Json(ops[i].value)
             /\ app'.profile = ops[i].value
             /\ remote' = remote
     /\ (Len(ops') < Len(ops) /\ opDone'.kind = "saveProfile") =>
          /\ \E i \in 1..Len(ops) :
                /\ ops[i].kind = "saveProfile"
                /\ ops' = RemoveAt(ops, i)
                /\ opDone'.applied <=> ops[i].pc = "remote"
          /\ app' = app /\ local' = local
          /\ opDone'.failed => (opDone'.alerted /\ remote' = remote)
          /\ ~opDone'.applied => opDone'.failed]_vars

\* A save whose upsert failed: alerted, the saved name is in the store and in
\* memory, the remote row still holds the old name.
C15_Witness ==
  /\ opDone.kind = "saveProfile" /\ opDone.failed /\ opDone.applied
  /\ opDone.alerted
  /\ app.profile.name = "Alex"
  /\ local[Key("profile", "u1")] = Json(app.profile)
  /\ remote["u1"] = RowBob

\* ---------------------------------------------------- the reminder screen
\* MedicationScreen lists the medications of chatMedications; a reminder is
\* { medication, time, notificationId }.  A notification id is modelled by
\* what it was scheduled for; <<>> is null.
Reminder(m, t, id) == [medication |-> m, time |-> t, notificationId |-> id]
FindReminder(rs, m) == SelectSeq(rs, LAMBDA r : r.medication = m)

\* /^([01]\d|2[0-3]):([0-5]\d)$/.test(time)
validateTime(time) ==
  /\ Len(time) = 5
  /\ \/ /\ time[1] \in {"0", "1"}
        /\ time[2] \in {"0", "1", "2", "3", "4", "5", "6", "7", "8", "9"}
     \/ time[1] = "2" /\ time[2] \in {"0", "1", "2", "3"}
  /\ time[3] = ":"
  /\ time[4] \in {"0", "1", "2", "3", "4", "5"}
  /\ time[5] \in {"0", "1", "2", "3", "4", "5", "6", "7", "8", "9"}

\* What a handler leaves behind when it turns its input down with an alert
\* and returns.
Rejected(userId) ==
  [kind |-> "rejected", userId |-> userId, failed |-> TRUE,
   applied |-> FALSE, alerted |-> TRUE]

\* handleSetOrUpdateReminder starting the scheduling whatever was typed.
HandleSetOrUpdateReminderUnvalidated(medName, reminderTimeInput) ==
  /\ CanInvoke
  /\ view.props.profile.user_id # Null
  /\ medName \in SeqToSet(view.props.chatMedications)
  /\ ops' = Append(ops, Op("setReminder", "schedule",
                           view.props.profile.user_id,
                           Key("reminders", view.props.profile.user_id),
                           view.props.reminders,
                           [medication |-> medName,
                            time |-> Trim(reminderTimeInput)]))
  /\ UNCHANGED <<scheduled, app, view, local, remote, loads, netFaults, ioFaults, made,
                 prefsPc, authEvents, saved, expect, done, opDone>>

\* handleSetOrUpdateReminder(medName) with reminderTimeInput typed in, up to
\* the await of scheduleMedicineNotification.
HandleSetOrUpdateReminder(medName, reminderTimeInput) ==
  /\ CanInvoke
  /\ view.props.profile.user_id # Null
  /\ medName \in SeqToSet(view.props.chatMedications)
  /\ IF validateTime(Trim(reminderTimeInput))
     THEN /\ ops' = Append(ops, Op("setReminder", "schedule",
                                   view.props.profile.user_id,
                                   Key("reminders", view.props.profile.user_id),
                                   view.props.reminders,
                                   [medication |-> medName,
                                    time |-> Trim(reminderTimeInput)]))
          /\ UNCHANGED opDone
     ELSE /\ opDone' = Rejected(view.props.profile.user_id)
          /\ UNCHANGED ops
  /\ UNCHANGED <<scheduled, app, view, local, remote, loads, netFaults, ioFaults, made,
                 prefsPc, authEvents, saved, expect, done>>

\* The list handleSetOrUpdateReminder writes: the captured reminders with the
\* entry of the medication replaced in place, or appended.
UpsertReminder(rs, m, t, id) ==
  LET existing == FindReminder(rs, m)
      keptId == IF id # <<>> THEN id
                ELSE IF existing # <<>> THEN existing[1].notificationId
                ELSE <<>>
      new == Reminder(m, t, keptId)
  IN IF existing # <<>>
     THEN [k \in 1..Len(rs) |-> IF rs[k].medication = m THEN new ELSE rs[k]]
     ELSE Append(rs, new)

\* scheduleMedicineNotification settles (its permission, cancel and schedule
\* calls touch only the notification service): with an identifier, or with
\* null, which ends a first set and lets an update go on.
ReminderScheduled(i) ==
  /\ Quiet
  /\ At(i, "setReminder", "schedule")
  /\ LET m == ops[i].item.medication
         t == ops[i].item.time
         existing == FindReminder(ops[i].value, m)
         isUpdating == existing # <<>>
         \* cancelScheduledNotificationAsync(existingId), if there is one
         cancelled == IF isUpdating THEN scheduled \ {existing[1].notificationId}
                      ELSE scheduled
     IN \/ /\ ops' = [ops EXCEPT ![i].pc = "write",
                          ![i].value = UpsertReminder(ops[i].value, m, t, <<m, t>>)]
           /\ scheduled' = cancelled \cup {<<m, t>>}
           /\ UNCHANGED <<ioFaults, opDone>>
        \/ \* null: permission refused (nothing was cancelled), or the
           \* scheduling call threw (after the cancellation)
           /\ ioFaults > 0
           /\ ioFaults' = ioFaults - 1
           /\ scheduled' \in {scheduled, cancelled}
           /\ IF isUpdating
              THEN /\ ops' = [ops EXCEPT ![i].pc = "write",
                          ![i].value = UpsertReminder(ops[i].value, m, t, <<>>)]
                   /\ UNCHANGED opDone
              ELSE Finished(i, TRUE, FALSE, TRUE)
  /\ UNCHANGED <<app, view, local, remote, loads, netFaults, made, prefsPc,
                 authEvents, saved, expect, done>>

\* The setItem of handleSetOrUpdateReminder settles.  expect["reminders"]
\* keeps, per medication, the <<medication, time>> of the last set whose
\* write succeeded.
ReminderWrite(i) ==
  /\ Quiet
  /\ At(i, "setReminder", "write")
  /\ WriteThenSet(i, "reminders")
  /\ IF ioFaults' = ioFaults
     THEN Expecting("reminders",
            {e \in expect["reminders"] : e[1] # ops[i].item.medication}
            \cup {<<ops[i].item.medication, ops[i].item.time>>})
     ELSE UNCHANGED expect
  /\ UNCHANGED <<scheduled, view, remote, loads, netFaults, made, prefsPc, authEvents,
                 saved, done>>

\* handleDeleteReminder(medName): the reminder is in the list of this render;
\* the confirmation dialog opens.
HandleDeleteReminder(medName) ==
  /\ CanInvoke
  /\ view.props.profile.user_id # Null
  /\ IF FindReminder(view.props.reminders, medName) # <<>>
     THEN /\ ops' = Append(ops, Op("deleteReminder", "confirm",
                                   view.props.profile.user_id,
                                   Key("reminders", view.props.profile.user_id),
                                   view.props.reminders,
                                   [medication |-> medName, time |-> <<>>]))
          /\ UNCHANGED opDone
     ELSE /\ opDone' = NotFound(view.props.profile.user_id)
          /\ UNCHANGED ops
  /\ UNCHANGED <<scheduled, app, view, local, remote, loads, netFaults, ioFaults, made,
                 prefsPc, authEvents, saved, expect, done>>

\* "Delete" is pressed: the notification is cancelled and the captured list
\* without the medication is written -- or "Cancel" is pressed.
DeleteReminderConfirm(i) ==
  /\ Quiet
  /\ At(i, "deleteReminder", "confirm")
  /\ \/ \* Delete: the notification of the reminder is cancelled, then
        \* setItem is issued
        /\ ops' = [ops EXCEPT ![i].pc = "write",
                              ![i].value = SelectSeq(ops[i].value,
                                 LAMBDA r : r.medication # ops[i].item.medication)]
        /\ scheduled' = scheduled \
              {FindReminder(ops[i].value, ops[i].item.medication)[1].notificationId}
     \/ \* Cancel
        /\ ops' = RemoveAt(ops, i)
        /\ UNCHANGED scheduled
  /\ UNCHANGED <<app, view, local, remote, loads, netFaults, ioFaults, made,
                 prefsPc, authEvents, saved, expect, done, opDone>>

DeleteReminderWrite(i) ==
  /\ Quiet
  /\ At(i, "deleteReminder", "write")
  /\ WriteThenSet(i, "reminders")
  /\ UNCHANGED <<scheduled, view, remote, loads, netFaults, made, prefsPc, authEvents,
                 saved, expect, done>>

\* u1 in MainApp after a load that found two medications and no reminder.
MedsApp == [ReadyApp EXCEPT !.chatMedications = <<"Aspirin", "Ibuprofen">>]

InitRem ==
  /\ app = MedsApp
  /\ view = [props |-> MedsApp, screen |-> "MainApp", effect4 |-> FALSE,
             step |-> 1, isSaving |-> FALSE,
             draft |-> Draft(DEFAULT_PROFILE)]
  /\ local = [ReadyLocal EXCEPT ![Key("chatMedications", "u1")] =
                                  Json(MedsApp.chatMedications)]
  /\ remote = [u \in Users |-> IF u = "u1" THEN RowBob ELSE NoRow]
  /\ loads = <<>>
  /\ ops = <<>>
  /\ netFaults = 0
  /\ ioFaults = MaxIoFaults
  /\ made = 1
  /\ scheduled = {}
  /\ prefsPc = "done"
  /\ authEvents = 0
  /\ saved = [u \in Users |-> NoSave]
  /\ expect = [c \in Collections |-> IF c = "history" THEN {1} ELSE {}]
  /\ done = [ReadyDone EXCEPT
               !.snapshot.results["chatMedications"] = MedsApp.chatMedications]
  /\ opDone = NoOpDone

\* The same start on a device whose local store does not fail.
InitMeds ==
  /\ app = MedsApp
  /\ view = [props |-> MedsApp, screen |-> "MainApp", effect4 |-> FALSE,
             step |-> 1, isSaving |-> FALSE,
             draft |-> Draft(DEFAULT_PROFILE)]
  /\ local = [ReadyLocal EXCEPT ![Key("chatMedications", "u1")] =
                                  Json(MedsApp.chatMedications)]
  /\ remote = [u \in Users |-> IF u = "u1" THEN RowBob ELSE NoRow]
  /\ loads = <<>>
  /\ ops = <<>>
  /\ netFaults = 0
  /\ ioFaults = 0               \* no local-store call fails
  /\ made = 1
  /\ scheduled = {}
  /\ prefsPc = "done"
  /\ authEvents = 0
  /\ saved = [u \in Users |-> NoSave]
  /\ expect = [c \in Collections |-> IF c = "history" THEN {1} ELSE {}]
  /\ done = [ReadyDone EXCEPT
               !.snapshot.results["chatMedications"] = MedsApp.chatMedications]
  /\ opDone = NoOpDone

NextRem ==
  \/ \E m \in {"Aspirin", "Ibuprofen"}, t \in {T0800, T0900} :
        HandleSetOrUpdateReminder(m, t)
  \/ \E i \in 1..MaxOps : ReminderScheduled(i) \/ ReminderWrite(i)
  \/ \E m \in {"Aspirin", "Ibuprofen"} : HandleDeleteReminder(m)
  \/ \E i \in 1..MaxOps : DeleteReminderConfirm(i) \/ DeleteReminderWrite(i)
  \/ Render

SpecRem == InitMeds /\ [][NextRem]_vars

\* C16: reminder upsert.  Once the reminder operations issued have finished,
\* the reminders in memory hold at most one entry per medication, and the
\* time of each entry is the time of the last set for its medication whose
\* write succeeded.
C16_OneReminderPerMedication ==
  (ops = <<>> /\ app.session # Null /\ app.profile.user_id = app.session) =>
     \A i \in 1..Len(app.reminders) :
        /\ \A j \in 1..Len(app.reminders) :
              j # i => app.reminders[j].medication # app.reminders[i].medication
        /\ <<app.reminders[i].medication, app.reminders[i].time>>
              \in expect["reminders"]

\* ------------------------------------------------- the appointments screen
\* A date/time text is the sequence of its characters.
DigitVal(c) ==
  CASE c = "0" -> 0 [] c = "1" -> 1 [] c = "2" -> 2 [] c = "3" -> 3
    [] c = "4" -> 4 [] c = "5" -> 5 [] c = "6" -> 6 [] c = "7" -> 7
    [] c = "8" -> 8 [] c = "9" -> 9

\* parseInt of the characters from..to of s, all of them digits.
RECURSIVE ParseInt(_, _, _)
ParseInt(s, from, to) ==
  IF to < from THEN 0
  ELSE 10 * ParseInt(s, from, to - 1) + DigitVal(s[to])

AllDigits(s, from, to) ==
  \A k \in from..to : s[k] \in {"0", "1", "2", "3", "4", "5", "6", "7", "8", "9"}

\* /^(\d{1,2})\/(\d{1,2})\/(\d{4})\s(\d{2}):(\d{2})$/ : the lengths <<a, b>> of
\* the month and the day under which s matches (at most one pair).
DateMatch(s) ==
  {ab \in {1, 2} \X {1, 2} :
     LET a == ab[1]
         b == ab[2]
     IN /\ Len(s) = a + b + 12
        /\ AllDigits(s, 1, a) /\ s[a + 1] = "/"
        /\ AllDigits(s, a + 2, a + b + 1) /\ s[a + b + 2] = "/"
        /\ AllDigits(s, a + b + 3, a + b + 6) /\ s[a + b + 7] = " "
        /\ AllDigits(s, a + b + 8, a + b + 9) /\ s[a + b + 10] = ":"
        /\ AllDigits(s, a + b + 11, a + b + 12)}

\* The captures [, month, day, year, hour, minute] of a matching text.
DateFields(s) ==
  LET ab == CHOOSE x \in DateMatch(s) : TRUE
      a == ab[1]
      b == ab[2]
  IN [month |-> ParseInt(s, 1, a), day |-> ParseInt(s, a + 2, a + b + 1),
      year |-> ParseInt(s, a + b + 3, a + b + 6),
      hour |-> ParseInt(s, a + b + 8, a + b + 9),
      minute |-> ParseInt(s, a + b + 11, a + b + 12),
      monthText |-> a, dayText |-> b]

IsLeap(y) == (y % 4 = 0 /\ y % 100 # 0) \/ y % 400 = 0
DaysBeforeMonth == <<0, 31, 59, 90, 120, 151, 181, 212, 243, 273, 304, 334>>
DaysInMonth(y, m) ==
  IF m = 2 THEN (IF IsLeap(y) THEN 29 ELSE 28)
  ELSE IF m \in {4, 6, 9, 11} THEN 30 ELSE 31

\* new Date(year, monthIndex, day, hour, minute).getTime(), in minutes from
\* the first of January of year 0 and in a zone without clock changes: a
\* month index or a day out of range carries over, as in the Date
\* constructor.
DateTime(year, monthIndex, day, hour, minute) ==
  LET y == year + (monthIndex \div 12)
      m == monthIndex % 12
      days == 365 * y + ((y + 3) \div 4) - ((y + 99) \div 100)
              + ((y + 399) \div 400) + DaysBeforeMonth[m + 1]
              + (IF m >= 2 /\ IsLeap(y) THEN 1 ELSE 0) + (day - 1)
  IN (days * 24 + hour) * 60 + minute

\* parseDateString of the sort comparator: new Date(0) when no match.
parseDateString(s) ==
  IF DateMatch(s) = {} THEN DateTime(1970, 0, 1, 0, 0)
  ELSE LET f == DateFields(s)
       IN DateTime(f.year, f.month - 1, f.day, f.hour, f.minute)

\* new Date() while the screen is in use.
now == DateTime(2026, 0, 1, 0, 0)

\* validateDateTime: the stricter pattern, a date of the calendar, in the
\* future.
validateDateTime(s) ==
  /\ DateMatch(s) # {}
  /\ LET f == DateFields(s)
     IN /\ f.month \in 1..12
        /\ f.day \in 1..31
        /\ f.year \div 100 = 20
        /\ f.hour <= 23
        /\ f.minute <= 59
        /\ f.day <= DaysInMonth(f.year, f.month)
        /\ parseDateString(s) > now

\* The texts typed into the form: three dates D1 < D2 < D3 whose texts are
\* in another order, a day that is not in the calendar, and a past date.
D1 == <<"1", "/", "5", "/", "2", "0", "3", "0", " ", "0", "9", ":", "0", "0">>
D2 == <<"0", "1", "/", "1", "0", "/", "2", "0", "3", "0", " ", "0", "9", ":", "0", "0">>
D3 == <<"1", "2", "/", "1", "/", "2", "0", "3", "0", " ", "1", "0", ":", "3", "0">>
DateInputs ==
  {D1, D2, D3,
   <<"2", "/", "3", "0", "/", "2", "0", "3", "0", " ", "0", "9", ":", "0", "0">>,
   <<"1", "/", "5", "/", "2", "0", "2", "0", " ", "0", "9", ":", "0", "0">>}
MaxAppts == 4        \* book, cancel and journal operations started in one run

\* validateDateTime and parseDateString of the texts in use, computed once.
ValidInputs == {d \in DateInputs : validateDateTime(d)}
ParsedDate == [d \in DateInputs |-> parseDateString(d)]

\* The appointments left as they were appended.
SortByDateOmitted(appts) == appts

\* Array.prototype.sort with the comparator dateA.getTime() - dateB.getTime():
\* a stable sort by parseDateString.
RECURSIVE SortByDate(_)
SortByDate(appts) ==
  IF appts = <<>> THEN <<>>
  ELSE LET rest == SortByDate(SubSeq(appts, 1, Len(appts) - 1))
           x == appts[Len(appts)]
           before == SelectSeq(rest, LAMBDA a :
                        ParsedDate[a.date] <= ParsedDate[x.date])
           after == SelectSeq(rest, LAMBDA a :
                        ParsedDate[a.date] > ParsedDate[x.date])
       IN before \o <<x>> \o after

AppointmentsKey(userId) == Key("appointments", userId)

\* bookAppointment with a title typed in, up to the await of
\* scheduleAppointmentNotification.
BookAppointment(appointmentTitle, dateTimeInput) ==
  /\ CanInvoke
  /\ view.props.profile.user_id # Null
  /\ made + Cardinality({i \in 1..Len(ops) : ops[i].kind = "book"}) < MaxAppts
  /\ IF Trim(appointmentTitle) # <<>> /\ Trim(dateTimeInput) \in ValidInputs
     THEN /\ ops' = Append(ops, Op("book", "schedule",
                                   view.props.profile.user_id,
                                   AppointmentsKey(view.props.profile.user_id),
                                   view.props.appointments,
                                   [title |-> Trim(appointmentTitle),
                                    date |-> Trim(dateTimeInput)]))
          /\ UNCHANGED opDone
     ELSE /\ opDone' = Rejected(view.props.profile.user_id)
          /\ UNCHANGED ops
  /\ UNCHANGED <<scheduled, app, view, local, remote, loads, netFaults, ioFaults, made,
                 prefsPc, authEvents, saved, expect, done>>

\* scheduleAppointmentNotification settles, with an identifier or with null;
\* the new appointment gets its id and the captured list is sorted.
AppointmentScheduled(i) ==
  /\ Quiet
  /\ At(i, "book", "schedule")
  /\ \E identified \in BOOLEAN :
       /\ IF identified THEN UNCHANGED ioFaults
          ELSE ioFaults > 0 /\ ioFaults' = ioFaults - 1
       /\ LET newAppointment ==
                [id |-> made + 1, date |-> ops[i].item.date,
                 title |-> ops[i].item.title,
                 notificationId |-> IF identified THEN <<made + 1>> ELSE <<>>]
          IN ops' = [ops EXCEPT ![i].pc = "write",
                       ![i].value = SortByDate(Append(ops[i].value, newAppointment))]
  /\ made' = made + 1
  /\ UNCHANGED <<scheduled, app, view, local, remote, loads, netFaults, prefsPc,
                 authEvents, saved, expect, done, opDone>>

BookWrite(i) ==
  /\ Quiet
  /\ At(i, "book", "write")
  /\ WriteThenSet(i, "appointments")
  /\ UNCHANGED <<scheduled, view, remote, loads, netFaults, made, prefsPc, authEvents,
                 saved, expect, done>>

\* cancelAppointment(idToCancel): the appointment is in the list of this
\* render; the confirmation dialog opens.  (`made` counts the operation, so
\* that MaxAppts bounds the run.)
CancelAppointment(idToCancel) ==
  /\ CanInvoke
  /\ view.props.profile.user_id # Null
  /\ \E k \in 1..Len(view.props.appointments) :
        view.props.appointments[k].id = idToCancel
  /\ made + Cardinality({i \in 1..Len(ops) : ops[i].kind = "book"}) < MaxAppts
  /\ made' = made + 1
  /\ ops' = Append(ops, Op("cancel", "confirm", view.props.profile.user_id,
                           AppointmentsKey(view.props.profile.user_id),
                           view.props.appointments, idToCancel))
  /\ UNCHANGED <<scheduled, app, view, local, remote, loads, netFaults, ioFaults,
                 prefsPc, authEvents, saved, expect, done, opDone>>

\* "Cancel It" is pressed: the notification is cancelled and the captured
\* list without the appointment is written -- or "Keep" is pressed.
CancelAppointmentConfirm(i) ==
  /\ Quiet
  /\ At(i, "cancel", "confirm")
  /\ \/ ops' = [ops EXCEPT ![i].pc = "write",
                           ![i].value = SelectSeq(ops[i].value,
                              LAMBDA a : a.id # ops[i].item)]
     \/ ops' = RemoveAt(ops, i)
  /\ UNCHANGED <<scheduled, app, view, local, remote, loads, netFaults, ioFaults, made,
                 prefsPc, authEvents, saved, expect, done, opDone>>

CancelWrite(i) ==
  /\ Quiet
  /\ At(i, "cancel", "write")
  /\ WriteThenSet(i, "appointments")
  /\ UNCHANGED <<scheduled, view, remote, loads, netFaults, made, prefsPc, authEvents,
                 saved, expect, done>>

\* u1 in MainApp after a load that found no stored collection.
EmptyApp == [ReadyApp EXCEPT !.history = <<>>]

InitApt ==
  /\ app = EmptyApp
  /\ view = [props |-> EmptyApp, screen |-> "MainApp", effect4 |-> FALSE,
             step |-> 1, isSaving |-> FALSE,
             draft |-> Draft(DEFAULT_PROFILE)]
  /\ local = [ReadyLocal EXCEPT ![Key("history", "u1")] = Absent]
  /\ remote = [u \in Users |-> IF u = "u1" THEN RowBob ELSE NoRow]
  /\ loads = <<>>
  /\ ops = <<>>
  /\ netFaults = 0
  /\ ioFaults = 0               \* the claim is about operations that succeed
  /\ made = 0
  /\ scheduled = {}
  /\ prefsPc = "done"
  /\ authEvents = 0
  /\ saved = [u \in Users |-> NoSave]
  /\ expect = [c \in Collections |-> {}]
  /\ done = [ReadyDone EXCEPT !.snapshot.results["history"] = <<>>]
  /\ opDone = NoOpDone

NextApt ==
  \/ \E d \in DateInputs : BookAppointment(<<"a">>, d)
  \/ \E i \in 1..MaxOps : AppointmentScheduled(i) \/ BookWrite(i)
  \/ \E id \in 1..MaxAppts : CancelAppointment(id)
  \/ \E i \in 1..MaxOps : CancelAppointmentConfirm(i) \/ CancelWrite(i)
  \/ Render

SpecApt == InitApt /\ [][NextApt]_vars

\* C20: from an empty collection, whatever appointments are booked and
\* cancelled, the appointments in memory and the stored appointments are in
\* ascending order of their parsed date and time.
C20_AppointmentsSorted ==
  LET SortedByDate(appts) ==
        \A j, k \in 1..Len(appts) :
           j < k => ParsedDate[appts[j].date] <= ParsedDate[appts[k].date]
  IN
  /\ SortedByDate(app.appointments)
  /\ \A u \in Users :
        local[AppointmentsKey(u)].t = "json" =>
           SortedByDate(local[AppointmentsKey(u)].v)

\* D1, D3 and D2 were booked in this order and are held as D1, D2, D3.
C20_Witness ==
  /\ Len(app.appointments) = 3
  /\ [k \in 1..3 |-> app.appointments[k].id] = <<1, 3, 2>>
  /\ [k \in 1..3 |-> app.appointments[k].date] = <<D1, D2, D3>>
  /\ local[AppointmentsKey("u1")] = Json(app.appointments)

\* ---------------------------------------------- the profile editing form
\* A text is typed into the newCondition input.
SetNewCondition(text) ==
  /\ Quiet
  /\ view.screen = "MainApp"
  /\ text # <<>>
  /\ view' = [view EXCEPT !.draft.newCondition = text]
  /\ UNCHANGED <<scheduled, app, local, remote, loads, ops, netFaults, ioFaults, made,
                 prefsPc, authEvents, saved, expect, done, opDone>>

\* addItemToList comparing and appending the text as typed.
addItemToListUntrimmed ==
  /\ Quiet
  /\ view.screen = "MainApp"
  /\ LET newItem == view.draft.newCondition
         currentList == view.draft.conditions
     IN IF Trim(newItem) = <<>>
        THEN /\ opDone' = [kind |-> "addItem", userId |-> Null, failed |-> TRUE,
                           applied |-> FALSE, alerted |-> FALSE]
             /\ UNCHANGED view
        ELSE IF newItem \in SeqToSet(currentList)
        THEN /\ opDone' = [kind |-> "addItem", userId |-> Null, failed |-> TRUE,
                           applied |-> FALSE, alerted |-> TRUE]
             /\ view' = [view EXCEPT !.draft.newCondition = <<>>]
        ELSE /\ Len(currentList) < MaxItems
             /\ opDone' = [kind |-> "addItem", userId |-> Null, failed |-> FALSE,
                           applied |-> TRUE, alerted |-> FALSE]
             /\ view' = [view EXCEPT
                           !.draft.conditions = Append(currentList, newItem),
                           !.draft.newCondition = <<>>]
  /\ UNCHANGED <<scheduled, app, local, remote, loads, ops, netFaults, ioFaults, made,
                 prefsPc, authEvents, saved, expect, done>>

\* addItemToList('conditions', newCondition, setNewCondition): nothing for a
\* blank text; otherwise the updater alerts on a duplicate or appends the
\* trimmed text, and the input is cleared.
addItemToList ==
  /\ Quiet
  /\ view.screen = "MainApp"
  /\ LET trimmedItem == Trim(view.draft.newCondition)
         currentList == view.draft.conditions
     IN IF trimmedItem = <<>>
        THEN /\ opDone' = [kind |-> "addItem", userId |-> Null, failed |-> TRUE,
                           applied |-> FALSE, alerted |-> FALSE]
             /\ UNCHANGED view
        ELSE IF trimmedItem \in SeqToSet(currentList)
        THEN /\ opDone' = [kind |-> "addItem", userId |-> Null, failed |-> TRUE,
                           applied |-> FALSE, alerted |-> TRUE]
             /\ view' = [view EXCEPT !.draft.newCondition = <<>>]
        ELSE /\ Len(currentList) < MaxItems
             /\ opDone' = [kind |-> "addItem", userId |-> Null, failed |-> FALSE,
                           applied |-> TRUE, alerted |-> FALSE]
             /\ view' = [view EXCEPT
                           !.draft.conditions = Append(currentList, trimmedItem),
                           !.draft.newCondition = <<>>]
  /\ UNCHANGED <<scheduled, app, local, remote, loads, ops, netFaults, ioFaults, made,
                 prefsPc, authEvents, saved, expect, done>>

\* removeItemFromList('conditions', indexToRemove) with "Remove" pressed in
\* its dialog: the updater filters the index out of the list it is given.
removeItemFromList(indexToRemove) ==
  /\ Quiet
  /\ view.screen = "MainApp"
  /\ indexToRemove \in 1..Len(view.draft.conditions)
  /\ view' = [view EXCEPT
                !.draft.conditions = RemoveAt(view.draft.conditions, indexToRemove)]
  /\ opDone' = [kind |-> "removeItem", userId |-> Null, failed |-> FALSE,
                applied |-> TRUE, alerted |-> FALSE]
  /\ UNCHANGED <<scheduled, app, local, remote, loads, ops, netFaults, ioFaults, made,
                 prefsPc, authEvents, saved, expect, done>>

NextList ==
  \/ \E text \in UNION {[1..k -> {"a", " "}] : k \in 1..MaxStrLen} :
        SetNewCondition(text)
  \/ addItemToList
  \/ \E k \in 1..MaxItems : removeItemFromList(k)

SpecList == InitApt /\ [][NextList]_vars

\* C21: list insert.  A call of addItemToList with a text that is blank
\* after trimming changes nothing; with a text whose trimmed form is in the
\* list it alerts "Duplicate Entry" and leaves the list as it is; otherwise
\* it appends the trimmed form.  So the list holds the trimmed text exactly
\* once after one call and after a second call with an equal trimmed text,
\* and never holds a text twice or a blank text.
C21_ListInsert ==
  [][(\/ view'.draft.newCondition = <<>> /\ view.draft.newCondition # <<>>
      \/ opDone'.kind = "addItem" /\ opDone' # opDone)
     =>
       LET t == Trim(view.draft.newCondition)
           cur == view.draft.conditions
           new == view'.draft.conditions
           Count(l, x) == Cardinality({k \in 1..Len(l) : l[k] = x})
       IN /\ t = <<>> => new = cur /\ ~opDone'.alerted
          /\ (t # <<>> /\ Count(cur, t) > 0) => new = cur /\ opDone'.alerted
          /\ (t # <<>> /\ Count(cur, t) = 0) =>
                new = Append(cur, t) /\ ~opDone'.alerted
          /\ t # <<>> => Count(new, t) = 1
          /\ \A k \in 1..Len(new) : Count(new, new[k]) = 1 /\ new[k] # <<>>]_vars

\* "a" is in the list once, and a second insert of a text that trims to an
\* entry of the list has just been rejected.
C21_Witness ==
  /\ opDone.kind = "addItem" /\ opDone.alerted
  /\ view.draft.conditions = << <<"a">> >>
  /\ view.draft.newCondition = <<>>

\* C17: per-user keys.  Every write or removal of user data in the local
\* store, every pending mutator's key, and every read the loader makes, is
\* at a key <collection>_<userId> whose userId is non-null and is the user
\* of the session active when the access is made.
C17_KeysOfActiveUser ==
  [][/\ \A k \in Keys \ FlagKeys :
          local'[k] # local[k] => k[2] # Null /\ k[2] = app.session
     /\ \A i \in 1..Len(ops) :
          ops[i].key \notin FlagKeys => ops[i].key[2] # Null
     /\ \A i \in 1..Len(loads) :
          (/\ Len(loads') = Len(loads)
           /\ loads'[i] # loads[i]
           /\ loads[i].pc \in {"getProfile", "getData"})
          => loads[i].userId = app.session
     /\ (done' # done /\ ~done'.skipped) => done'.userId = done'.session]_vars

C19_RetryLoop ==
  [][\A i \in 1..Len(loads) :
       (Len(loads') = Len(loads) /\ loads'[i] # loads[i]) =>
          LET l == loads[i]
              n == loads'[i]
              inLoop(x) == x.pc \in {"fetch", "retryWait"}
              RetryMeasure(x) ==
                2 * (maxAttempts - x.attempts)
                + (IF x.pc = "retryWait" THEN 1 ELSE 0)
          IN /\ l.pc = "fetch" =>
                  /\ l.attempts < maxAttempts /\ ~l.fetched /\ ~l.fetchErr
                  /\ n.fetched => n.attempts = l.attempts /\ ~inLoop(n)
                  /\ ~n.fetched =>
                       /\ n.attempts = l.attempts + 1
                       /\ IF n.attempts = maxAttempts
                          THEN n.fetchErr /\ ~inLoop(n)
                          ELSE n.pc = "retryWait" /\ ~n.fetchErr
             /\ l.pc = "retryWait" => n.pc = "fetch" /\ n.attempts = l.attempts
             /\ n.pc = "retryWait" => l.pc = "fetch"
             /\ (n.pc = "fetch" /\ n.attempts > 0) => l.pc = "retryWait"
             /\ (inLoop(l) /\ inLoop(n)) =>
                  RetryMeasure(n) < RetryMeasure(l) /\ RetryMeasure(n) >= 0]_vars

\* A load whose fetch failed twice, waited twice and then got a response.
C19_Witness ==
  /\ done.userId = "u1"
  /\ done.attempts = maxAttempts - 1
  /\ done.fetched /\ ~done.fetchErr

\* C22: invalid stored values.  When a load returns and no local-store call
\* has rejected, a stored profile that was unparsable or not this user's has
\* been discarded (the profile is the remote row's, or the stamped default)
\* and its key removed (and written again only as the cache of a remote
\* row); a stored collection that was unparsable or no array is returned
\* empty and its key is removed; every other collection is returned as
\* stored and its key is left as it was.
C22_InvalidDiscarded ==
  [][(done' # done /\ ~done'.skipped /\ ioFaults' = MaxIoFaults) =>
       LET u == done'.userId
           snap == done'.snapshot
           L == done'.stored
           row == done'.sp.t = "row"
       IN /\ (L.t # "absent" /\ ~ValidStored(L, u)) =>
               /\ snap.profile = IF row THEN mappedProfile(done'.sp.cols, u)
                                 ELSE StampedDefault(u)
               /\ local'[Key("profile", u)] =
                     IF row THEN Json(snap.profile) ELSE Absent
          /\ \A c \in Collections :
               LET v == local[Key(c, u)]
               IN IF v.t = "json"
                  THEN snap.results[c] = v.v /\ local'[Key(c, u)] = v
                  ELSE snap.results[c] = <<>> /\ local'[Key(c, u)] = Absent]_vars

\* C23: the error of the snapshot.  The load that returns has an empty
\* error exactly when its fetch got a response and its six collection reads
\* all resolved to an absent key or to an array; and a user with no local
\* key and no remote row gets the stamped default profile, six empty
\* collections and no error.
C23_ErrorExactlyOnFailure ==
  [][\A i \in 1..Len(loads) :
       (/\ loads' = RemoveAt(loads, i)
        /\ done' # done /\ ~done'.skipped
        /\ done'.userId = loads[i].userId) =>
          LET u == done'.userId
              snap == done'.snapshot
              readOk == /\ loads[i].pc = "getData"
                        /\ ioFaults' = ioFaults
                        /\ \A c \in Collections :
                              local[Key(c, u)].t \in {"absent", "json"}
          IN /\ snap.loadError = {} <=> (done'.fetched /\ readOk)
             /\ (/\ readOk
                 /\ done'.fetched /\ done'.sp = NoRow
                 /\ \A k \in Keys \ FlagKeys : k[2] = u => local[k] = Absent)
                => snap = DefaultSnapshot(u, {})]_vars

\* The fresh user of the scenario: nothing stored, no row, no error.
C23_Witness ==
  /\ done.userId = "u1" /\ done.fetched /\ done.attempts = 0
  /\ done.stored = Absent /\ done.sp = NoRow
  /\ done.snapshot = DefaultSnapshot("u1", {})
  /\ \A k \in Keys \ FlagKeys : local[k] = Absent

\* The history screen and the reminder screen of u1, with their delete
\* handlers.
NextDel ==
  \/ HandleSetOrUpdateReminder("Aspirin", T0800)
  \/ \E i \in 1..MaxOps : ReminderScheduled(i) \/ ReminderWrite(i)
  \/ \E m \in {"Aspirin", "Ibuprofen"} : HandleDeleteReminder(m)
  \/ \E i \in 1..MaxOps : DeleteReminderConfirm(i) \/ DeleteReminderWrite(i)
  \/ \E id \in 1..MaxItems : DeleteHistoryItem(id)
  \/ \E i \in 1..MaxOps : DeleteHistoryConfirm(i) \/ DeleteHistoryWrite(i)
  \/ Render

SpecDel == InitRem /\ [][NextDel]_vars

\* C24: deleting what is not there.  A confirmation dialog is only ever
\* open for a history item, or for the reminder of a medication, that is in
\* the list its handler was given; and the step of a delete handler that
\* finds nothing leaves the collections in memory, the local store and the
\* suspended handlers (no dialog, no write, no cancellation) as they were.
C24_DeleteAbsentIsNoOp ==
  [][/\ \A i \in 1..Len(ops') :
          ops'[i].pc = "confirm" =>
             IF ops'[i].kind = "deleteHistory"
             THEN ops'[i].item \in SeqToSet(ops'[i].value)
             ELSE FindReminder(ops'[i].value, ops'[i].item.medication) # <<>>
     /\ (opDone' # opDone /\ opDone'.kind = "notFound") =>
          UNCHANGED <<app, view, local, ops, made>>]_vars

\* Aspirin has a reminder, the history holds item 1, and a delete of
\* something else has just found nothing.
C24_Witness ==
  /\ opDone.kind = "notFound"
  /\ ops = <<>>
  /\ Len(app.reminders) = 1 /\ app.reminders[1].medication = "Aspirin"
  /\ local[Key("reminders", "u1")] = Json(app.reminders)
  /\ app.history = <<1>> /\ local[HistoryKey("u1")] = Json(<<1>>)

\* ------------------------------------------------ the symptom journal
\* SymptomProgressScreen.addEntry, up to the await of setItem.  The entry is
\* stamped with the current time, so it sorts before the entries of the
\* list of this render.
AddEntry(newEntrySymptoms) ==
  /\ CanInvoke
  /\ view.props.profile.user_id # Null
  /\ made < MaxAppts
  /\ IF Trim(newEntrySymptoms) # <<>>
     THEN /\ ops' = Append(ops, Op("addEntry", "write",
                                   view.props.profile.user_id,
                                   Key("symptomProgress",
                                       view.props.profile.user_id),
                                   <<[id |-> made + 1,
                                      symptoms |-> Trim(newEntrySymptoms)]>>
                                     \o view.props.symptomProgress,
                                   made + 1))
          /\ made' = made + 1
          /\ UNCHANGED opDone
     ELSE /\ opDone' = Rejected(view.props.profile.user_id)
          /\ UNCHANGED <<ops, made>>
  /\ UNCHANGED <<scheduled, app, view, local, remote, loads, netFaults, ioFaults,
                 prefsPc, authEvents, saved, expect, done>>

AddEntryWrite(i) ==
  /\ Quiet
  /\ At(i, "addEntry", "write")
  /\ WriteThenSet(i, "symptomProgress")
  /\ UNCHANGED <<scheduled, view, remote, loads, netFaults, made, prefsPc, authEvents,
                 saved, expect, done>>

\* The three forms of u1 with what may be typed into them: times, titles,
\* dates and symptom texts that pass the validation and that do not.
NextVal ==
  \/ \E t \in {<<" ">> \o T0900, <<"8", ":", "0", "0">>,
                <<"2", "4", ":", "0", "0">>, <<"0", "8", ":", "6", "0">>,
                <<>>} :
        HandleSetOrUpdateReminder("Aspirin", t)
  \/ \E i \in 1..MaxOps : ReminderScheduled(i) \/ ReminderWrite(i)
  \/ \E title \in {<<>>, <<" ">>, <<"a">>}, d \in DateInputs \ {D2, D3} :
        BookAppointment(title, d)
  \/ \E i \in 1..MaxOps : AppointmentScheduled(i) \/ BookWrite(i)
  \/ \E text \in {<<>>, <<" ">>, <<"a", " ">>} : AddEntry(text)
  \/ \E i \in 1..MaxOps : AddEntryWrite(i)
  \/ Render

SpecVal == InitMeds /\ [][NextVal]_vars

\* C25: input that fails validation.  Every handler that is under way,
\* and with it every notification it schedules and every write it attempts,
\* was started from input that passed the validation, and so was every
\* item held in memory or in the local store; and the step of a handler
\* that turns its input down shows its alert and leaves the collections in
\* memory, the local store and the handlers under way as they were.
C25_InvalidInputRejected ==
  [][LET validReminders(rs) == \A k \in 1..Len(rs) : validateTime(rs[k].time)
         validAppointments(as) ==
           \A k \in 1..Len(as) :
              as[k].date \in ValidInputs /\ as[k].title # <<>>
         validEntries(es) == \A k \in 1..Len(es) : es[k].symptoms # <<>>
         reminders == local'[Key("reminders", "u1")]
         appointments == local'[Key("appointments", "u1")]
         symptomProgress == local'[Key("symptomProgress", "u1")]
     IN
     /\ \A i \in 1..Len(ops') :
          /\ ops'[i].kind = "setReminder" => validReminders(ops'[i].value)
                                          /\ validateTime(ops'[i].item.time)
          /\ ops'[i].kind = "book" => validAppointments(ops'[i].value)
          /\ (ops'[i].kind = "book" /\ ops'[i].pc = "schedule") =>
                /\ ops'[i].item.date \in ValidInputs
                /\ ops'[i].item.title # <<>>
          /\ ops'[i].kind = "addEntry" => validEntries(ops'[i].value)
     /\ validReminders(app'.reminders)
     /\ validAppointments(app'.appointments)
     /\ validEntries(app'.symptomProgress)
     /\ reminders.t = "json" => validReminders(reminders.v)
     /\ appointments.t = "json" => validAppointments(appointments.v)
     /\ symptomProgress.t = "json" => validEntries(symptomProgress.v)
     /\ (opDone' # opDone /\ opDone'.kind = "rejected") =>
           /\ opDone'.alerted
           /\ UNCHANGED <<app, view, local, ops, made, ioFaults>>]_vars

\* A reminder, an appointment and a journal entry are held and stored, and
\* the last thing typed was turned down.
C25_Witness ==
  /\ opDone.kind = "rejected"
  /\ ops = <<>>
  /\ Len(app.reminders) = 1 /\ app.reminders[1].time = T0900
  /\ Len(app.appointments) = 1
  /\ Len(app.symptomProgress) = 1 /\ app.symptomProgress[1].symptoms = <<"a">>
  /\ local[Key("reminders", "u1")] = Json(app.reminders)
  /\ local[Key("symptomProgress", "u1")] = Json(app.symptomProgress)

\* ------------------------------------------------ onboarding, restarted
\* The process ends and the app is started again: every state of App has
\* its initial value and nothing is under way; the local store and the
\* remote rows are what they were.
ProcessStart ==
  /\ prefsPc = "done"
  /\ app' = AppInit
  /\ view' = [props |-> AppInit, screen |-> "Loading", effect4 |-> TRUE,
              step |-> 1, isSaving |-> FALSE, draft |-> Draft(DEFAULT_PROFILE)]
  /\ loads' = <<>>
  /\ ops' = <<>>
  /\ prefsPc' = "pending"
  /\ authEvents' = 0
  /\ done' = NoDone
  /\ opDone' = NoOpDone
  /\ UNCHANGED <<scheduled, local, remote, netFaults, ioFaults, made, saved, expect>>

\* A first start of the app on a device that stores no flag and an
\* unreadable profile of u1; u1 signs in, and a fetch and a local-store call
\* may fail.
InitFlag ==
  /\ InitCore
  /\ local = [k \in Keys |-> IF k = Key("profile", "u1") THEN Bad ELSE Absent]
  /\ remote = [u \in Users |-> IF u = "u1" THEN RowBob ELSE NoRow]
  /\ netFaults = 1
  /\ ioFaults = MaxIoFaults

NextFlag ==
  \/ GetSessionThen("u1")
  \/ CheckInitialPreferences
  \/ WarningContinue
  \/ handleNext
  \/ handleSkip
  \/ \E i \in 1..MaxOps : AcknowledgeWrite(i)
  \/ Render
  \/ Effect4
  \/ \E i \in 1..MaxInFlight : LoadStep(i)
  \/ ProcessStart

SpecFlag == InitFlag /\ [][NextFlag]_vars

\* C26: a flag write that fails.  The step on which the write of
\* hasSeenWarning or hasSeenIntro fails sets that flag in memory, so that
\* the gate leaves the screen, shows the alert and leaves the stored flag
\* as it was; and in a process in which nothing was acknowledged yet and
\* the stored flags were read, a flag that is not stored is not set in
\* memory, so that its screen is presented again.
C26_FlagWriteFails ==
  [][/\ (opDone' # opDone /\ opDone'.failed
         /\ opDone'.kind \in {"hasSeenWarning", "hasSeenIntro"}) =>
          /\ app'[opDone'.kind]
          /\ opDone'.alerted
          /\ local' = local
          /\ Screen(app') # (IF opDone'.kind = "hasSeenWarning" THEN "Warning"
                              ELSE "Intro")
     /\ (opDone' = NoOpDone /\ prefsPc' = "done") =>
          /\ app'.hasSeenWarning =>
                local'[Key("hasSeenWarning", Null)] = Raw("true")
          /\ app'.hasSeenIntro =>
                local'[Key("hasSeenIntro", Null)] = Raw("true")]_vars

\* The write of hasSeenWarning failed, the tour was then completed and
\* stored, and after a restart and the sign-in of u1 the disclaimer is
\* presented again.
C26_Witness ==
  /\ opDone = NoOpDone /\ prefsPc = "done"
  /\ local[Key("hasSeenWarning", Null)] = Absent
  /\ local[Key("hasSeenIntro", Null)] = Raw("true")
  /\ app.session = "u1"
  /\ view.screen = "Warning"
  /\ ~app.hasSeenWarning /\ app.hasSeenIntro

\* C27: what a load touches.  A step of initializeApp short of its return
\* leaves the state of App as it was.  A key of the local store that a step
\* of a load for u changes is a key of u, and it is either profile_u written
\* with the profile after a remote row was fetched, or profile_u removed
\* after the stored profile was found unparsable or not this user's, or a
\* collection key removed whose value was unparsable or no array.
C27_LoadFrame ==
  [][(loads' # loads /\ Len(loads') <= Len(loads)) =>
       /\ Len(loads') = Len(loads) => app' = app
       /\ \A k \in Keys :
            local'[k] # local[k] =>
              \E i \in 1..Len(loads) :
                 LET l == loads[i]
                 IN /\ k[2] = l.userId
                    /\ \/ /\ k[1] = "profile" /\ l.pc = "saveProfile"
                          /\ l.sp.t = "row" /\ l.fetched
                          /\ local'[k] = Json(l.loadedProfile)
                       \/ /\ k[1] = "profile" /\ l.pc = "removeProfile"
                          /\ ~ValidStored(l.stored, l.userId)
                          /\ local'[k] = Absent
                       \/ /\ k[1] \in Collections /\ l.pc = "removeData"
                          /\ local[k].t # "json"
                          /\ local'[k] = Absent]_vars

\* ------------------------------------------------------- a second user
\* u1 in MainApp on a device that also holds an unreadable profile of u2;
\* both users have a remote row, and one fetch may fail.
InitIso ==
  /\ app = ReadyApp
  /\ view = [props |-> ReadyApp, screen |-> "MainApp", effect4 |-> FALSE,
             step |-> 1, isSaving |-> FALSE,
             draft |-> Draft(DEFAULT_PROFILE)]
  /\ local = [ReadyLocal EXCEPT ![Key("profile", "u2")] = Bad]
  /\ remote = [u \in Users |-> RowBob]
  /\ loads = <<>>
  /\ ops = <<>>
  /\ netFaults = 1
  /\ ioFaults = MaxIoFaults
  /\ made = 1
  /\ scheduled = {}
  /\ prefsPc = "done"
  /\ authEvents = 0
  /\ saved = [u \in Users |-> NoSave]
  /\ expect = [c \in Collections |-> IF c = "history" THEN {1} ELSE {}]
  /\ done = ReadyDone
  /\ opDone = NoOpDone

\* The history mutators of u1, sign-out, and sign-in of either user on the
\* same device, which starts a load.
NextIso ==
  \/ HandleSymptomAnalysis
  \/ \E i \in 1..MaxOps : SymptomAnalysisDone(i) \/ SymptomWrite(i)
  \/ \E id \in 1..(MaxItems + 1) : DeleteHistoryItem(id)
  \/ \E i \in 1..MaxOps : DeleteHistoryConfirm(i) \/ DeleteHistoryWrite(i)
  \/ \E s \in Users \cup {Null} : OnAuthStateChange(s)
  \/ Render
  \/ Effect4
  \/ \E i \in 1..MaxInFlight : LoadStep(i)

SpecIso == InitIso /\ [][NextIso]_vars

\* C28: isolation of users.  While u2 is signed in and the profile in
\* memory is the one loaded for u2, neither the history in memory, nor the
\* history on screen, nor the history stored under the key of u2 holds an
\* item of u1 (an item stored under the key of u1, where only handlers
\* started by u1 write).
C28_CrossUserIsolation ==
  LET items(v) == IF v.t = "json" THEN SeqToSet(v.v) ELSE {}
      ofU1 == items(local[HistoryKey("u1")])
  IN (app.session = "u2" /\ app.profile.user_id = "u2") =>
       /\ SeqToSet(app.history) \cap ofU1 = {}
       /\ (view.props.session = "u2" /\ view.props.profile.user_id = "u2") =>
             SeqToSet(view.props.history) \cap ofU1 = {}
       /\ items(local[HistoryKey("u2")]) \cap ofU1 = {}

\* C29: reminders and their notifications.  Once the reminder operations
\* issued have finished, every medication notification that is scheduled
\* and not cancelled is the notification of exactly one reminder stored for
\* u1, and every notificationId of a stored reminder that is not null is
\* the id of a notification that is still scheduled.
C29_NotificationsMatchReminders ==
  ops = <<>> =>
    LET stored == local[Key("reminders", "u1")]
        rs == IF stored.t = "json" THEN stored.v ELSE <<>>
    IN /\ \A n \in scheduled :
             Cardinality({k \in 1..Len(rs) : rs[k].notificationId = n}) = 1
       /\ \A k \in 1..Len(rs) :
             rs[k].notificationId # <<>> => rs[k].notificationId \in scheduled

\* C30: the flags only go up.  On every step within one process (every
\* step but a restart) a flag of App that is set stays set.
C30_FlagsMonotonic ==
  [][prefsPc' = "pending" \/
     /\ app.hasSeenWarning => app'.hasSeenWarning
     /\ app.hasSeenIntro => app'.hasSeenIntro]_vars

====
